---- MODULE Spec2Model ----
(***************************************************************************)
(* A model of script-scan: the fuzzy matcher (suggestScripts), script      *)
(* discovery (getScripts and the walks it is made of) and the mtime cache  *)
(* (getCachedScripts / setCachedScripts).                                  *)
(*                                                                         *)
(* JavaScript strings are sequences of one-character strings, so that      *)
(* toLowerCase, split, trim, includes and localeCompare are computed on    *)
(* the characters as the runtime computes them.                            *)
(***************************************************************************)
EXTENDS Integers, Sequences, FiniteSets, TLC

VARIABLES
    sgChoices,   \* suggestScripts: the `choices` argument
    sgInput,     \* suggestScripts: the `input` argument (a string or undefined)
    sgResult,    \* suggestScripts: the returned array
    sgPc,        \* "idle" before the call, "done" after it
    disk,        \* the file system: what each directory holds
    cacheFile,   \* the cache file (~/.cache/script-scan/scripts.json)
    clock,       \* Date.now(), in milliseconds
    out,         \* the last call of the discovery or cache API: its arguments,
                 \* the time and the number of file changes at the call, and
                 \* its outcome
    last,        \* the step taken last: "init", "call", "write" or "tick"
    calls,       \* the number of calls made
    writes,      \* the number of changes made to the files
    ticks,       \* the number of times the clock has advanced
    ui,          \* the interactive runner: where it is, its prompt, and the
                 \* child processes it has spawned
    pmMemo,      \* detectPackageManager's cachedDir and cachedPM
    jobs,        \* the invocations in progress that share the files
    mk           \* parseMakefile: the file's content and the returned targets

sgVars == <<sgChoices, sgInput, sgResult, sgPc>>

envVars == <<disk, cacheFile, clock, out, last, calls, writes, ticks>>

auxVars == <<ui, pmMemo, jobs, mk>>

vars == <<sgChoices, sgInput, sgResult, sgPc,
          disk, cacheFile, clock, out, last, calls, writes, ticks,
          ui, pmMemo, jobs, mk>>

(***************************************************************************)
(* Strings                                                                 *)
(***************************************************************************)

\* A value that may be missing: undefined, or a string.
Undefined == [undefined |-> TRUE]
Str(s) == [str |-> s]

Range(s) == {s[i] : i \in 1..Len(s)}

UpperCaseLetters ==
    <<"A","B","C","D","E","F","G","H","I","J","K","L","M",
      "N","O","P","Q","R","S","T","U","V","W","X","Y","Z">>

LowerCaseLetters ==
    <<"a","b","c","d","e","f","g","h","i","j","k","l","m",
      "n","o","p","q","r","s","t","u","v","w","x","y","z">>

\* The decimal digits, the digit of n at n + 1.
Digits == <<"0", "1", "2", "3", "4", "5", "6", "7", "8", "9">>

\* String.prototype.toLowerCase on one character.
toLowerCaseChar(c) ==
    IF \E i \in 1..Len(UpperCaseLetters) : UpperCaseLetters[i] = c
    THEN LowerCaseLetters[CHOOSE i \in 1..Len(UpperCaseLetters) : UpperCaseLetters[i] = c]
    ELSE c

\* String.prototype.toLowerCase.
toLowerCase(s) == [i \in 1..Len(s) |-> toLowerCaseChar(s[i])]

\* The characters String.prototype.trim strips (those that occur in the model).
WhiteSpace == {" ", "\t", "\n", "\r"}

\* String.prototype.trim: strip white space from both ends.
RECURSIVE trimStart(_)
trimStart(s) ==
    IF s # <<>> /\ Head(s) \in WhiteSpace THEN trimStart(Tail(s)) ELSE s

RECURSIVE trimEnd(_)
trimEnd(s) ==
    IF s # <<>> /\ s[Len(s)] \in WhiteSpace
    THEN trimEnd(SubSeq(s, 1, Len(s) - 1))
    ELSE s

trim(s) == trimEnd(trimStart(s))

\* String.prototype.split with a one-character separator: the pieces between
\* the separators, empty pieces included ("".split(" ") is [""]).
RECURSIVE splitFrom(_, _, _)
splitFrom(s, sep, piece) ==
    IF s = <<>> THEN <<piece>>
    ELSE IF Head(s) = sep THEN <<piece>> \o splitFrom(Tail(s), sep, <<>>)
    ELSE splitFrom(Tail(s), sep, Append(piece, Head(s)))

split(s, sep) == splitFrom(s, sep, <<>>)

\* String.prototype.includes: `term` occurs in `s` as a substring.
includes(s, term) ==
    \E k \in 0..(Len(s) - Len(term)) :
        \A j \in 1..Len(term) : s[k + j] = term[j]


(***************************************************************************)
(* suggestScripts                                                          *)
(***************************************************************************)

\* input = (input || '').toLowerCase()
normalizedInput(input) ==
    IF input = Undefined \/ input.str = <<>> THEN <<>> ELSE toLowerCase(input.str)

\* input.split(' ').filter((term) => term.trim() !== '')
RECURSIVE filterTerms(_)
filterTerms(pieces) ==
    IF pieces = <<>> THEN <<>>
    ELSE (IF trim(Head(pieces)) # <<>> THEN <<Head(pieces)>> ELSE <<>>)
            \o filterTerms(Tail(pieces))

\* The input taken as one term, without the split
inputTermsUnsplit(input) == filterTerms(<<input>>)

inputTermsOf(input) == filterTerms(split(input, " "))

\* choice.name.toLowerCase(), without it
nameLowerRaw(choice) == choice.name

\* choice.name.toLowerCase()
nameLower(choice) == toLowerCase(choice.name)

\* choice.command.toLowerCase()
commandLower(choice) == toLowerCase(choice.command)

\* inputTerms.every(...) written as inputTerms.some(...)
allTermsMatchSome(choice, inputTerms) ==
    \E i \in 1..Len(inputTerms) :
        \/ includes(nameLower(choice), inputTerms[i])
        \/ includes(commandLower(choice), inputTerms[i])

\* inputTerms.every(...) that looks for the term in the name only
allTermsMatchNameOnly(choice, inputTerms) ==
    \A i \in 1..Len(inputTerms) : includes(nameLower(choice), inputTerms[i])

\* inputTerms.every(...) that looks for the term in the command only
allTermsMatchCommandOnly(choice, inputTerms) ==
    \A i \in 1..Len(inputTerms) : includes(commandLower(choice), inputTerms[i])

\* inputTerms.every((term) => nameLower.includes(term) || commandLower.includes(term))
allTermsMatch(choice, inputTerms) ==
    \A i \in 1..Len(inputTerms) :
        \/ includes(nameLower(choice), inputTerms[i])
        \/ includes(commandLower(choice), inputTerms[i])

\* The callback of choices.filter.
choiceMatches(choice, input, inputTerms) ==
    IF input = <<>> THEN TRUE
    ELSE IF nameLower(choice) = input THEN TRUE
    ELSE allTermsMatch(choice, inputTerms)

\* choices.filter((choice) => ...): the choices the callback keeps, in order.
RECURSIVE filterChoices(_, _, _)
filterChoices(choices, input, inputTerms) ==
    IF choices = <<>> THEN <<>>
    ELSE (IF choiceMatches(Head(choices), input, inputTerms)
          THEN <<Head(choices)>> ELSE <<>>)
            \o filterChoices(Tail(choices), input, inputTerms)

suggestScripts(choices, input) ==
    filterChoices(choices, normalizedInput(input), inputTermsOf(normalizedInput(input)))

(***************************************************************************)
(* The matcher applied to bounded inputs                                   *)
(***************************************************************************)

MaxInputLen == 3
MaxChoices == 2

\* The characters typed inputs are made of.
InputChars == {"a", "B", " ", "\t"}

StringsUpTo(chars, n) == UNION {[1..k -> chars] : k \in 0..n}

\* Candidates: names and commands that differ in case, share substrings and
\* hold a space or a tab.
ChoicePool ==
    { [name |-> <<"a">>,           command |-> <<"B">>],
      [name |-> <<"B", "a">>,      command |-> <<>>],
      [name |-> <<"B">>,           command |-> <<"a", " ", "a">>],
      [name |-> <<"a", " ", "B">>, command |-> <<"b">>],
      [name |-> <<"a", "\t", "b">>, command |-> <<"a">>] }

\* The candidates of suggestScripts.test.ts that the multi-term tests use.
TestChoice == [name |-> <<"t","e","s","t">>, command |-> <<"v","i","t","e","s","t">>]
TestWatchChoice ==
    [name |-> <<"t","e","s","t",":","w","a","t","c","h">>,
     command |-> <<"v","i","t","e","s","t"," ","-","-","w","a","t","c","h">>]
BuildChoice ==
    [name |-> <<"b","u","i","l","d">>,
     command |-> <<"t","s","c"," ","&","&"," ","r","o","l","l","u","p"," ","-","c">>]

SampleChoices == <<TestChoice, TestWatchChoice, BuildChoice>>

SampleInputs ==
    { <<"t","e","s","t"," ","w","a","t","c","h">>,
      <<"t","e","s","t"," "," "," ","w","a","t","c","h">>,
      <<"T","E","S","T">>,
      <<"B","U","I","L","D">>,
      <<"n","o","n","e">>,
      <<"t","e","s","t"," ","r","o","l","l","u","p">> }

(***************************************************************************)
(* The file system                                                         *)
(*                                                                         *)
(* A directory is the sequence of the names on its path, <<>> being "/".  *)
(* A name is a string (a sequence of characters).  Every directory of      *)
(* Dirs exists; what changes is which of them hold a package.json (and     *)
(* what it says) or a pnpm-workspace.yaml.                                 *)
(***************************************************************************)

RootDir == <<>>

NODE_MODULES == <<"n","o","d","e","_","m","o","d","u","l","e","s">>
DOT_GIT == <<".","g","i","t">>
DOT_GITHUB == <<".","g","i","t","h","u","b">>
DIST == <<"d","i","s","t">>
BUILD == <<"b","u","i","l","d">>
DOT_NEXT == <<".","n","e","x","t">>
COVERAGE == <<"c","o","v","e","r","a","g","e">>

\* The directory names the tree walk does not descend into.
SkippedDirNames ==
    {NODE_MODULES, DOT_GIT, DOT_GITHUB, DIST, BUILD, DOT_NEXT, COVERAGE}

PACKAGE_JSON == <<"p","a","c","k","a","g","e",".","j","s","o","n">>
PNPM_WORKSPACE_YAML ==
    <<"p","n","p","m","-","w","o","r","k","s","p","a","c","e",".","y","a","m","l">>

\* The directories of the model: /, /w, /w/a, /w/!x, /w/node_modules, /w/a:b
\* and /w/(root).
DirW == << <<"w">> >>
DirA == << <<"w">>, <<"a">> >>
DirX == << <<"w">>, <<"!", "x">> >>
DirN == << <<"w">>, NODE_MODULES >>
DirC == << <<"w">>, <<"a", ":", "b">> >>
DirR == << <<"w">>, <<"(", "r", "o", "o", "t", ")">> >>

Dirs == {RootDir, DirW, DirA, DirX, DirN, DirC, DirR}

\* readdir lists the subdirectories in this order (the order is the file
\* system's; the sorted result of discovery does not depend on it).
DirOrder == <<RootDir, DirW, DirX, DirA, DirC, DirR, DirN>>

\* path.dirname of a directory; dirname('/') is '/'.
dirname(dir) == IF dir = RootDir THEN RootDir ELSE SubSeq(dir, 1, Len(dir) - 1)

\* path.join(dir, 'package.json'): the path of a file in a directory.
join(dir, file) == [dir |-> dir, file |-> file]

NoFile == [exists |-> FALSE]
File(content, mtime) == [exists |-> TRUE, content |-> content, mtime |-> mtime]

MAKEFILE_NAMES ==
    << <<"M","a","k","e","f","i","l","e">>,
       <<"m","a","k","e","f","i","l","e">>,
       <<"G","N","U","m","a","k","e","f","i","l","e">> >>

\* A directory: its package.json, whether it holds a pnpm-workspace.yaml, the
\* lockfiles it holds, whether listing it fails, and the makefiles it holds
\* (name and file, in the order readdir lists them).
Dir(pkg, pnpm) ==
    [pkg |-> pkg, pnpm |-> pnpm, locks |-> {}, unreadable |-> FALSE,
     makefiles |-> <<>>]

\* The makefile of a name in a directory.
makefileIn(fs, dir, name) ==
    IF \E i \in 1..Len(fs[dir].makefiles) : fs[dir].makefiles[i].name = name
    THEN fs[dir].makefiles[CHOOSE i \in 1..Len(fs[dir].makefiles) :
                               fs[dir].makefiles[i].name = name].file
    ELSE NoFile

\* The package.json or the makefile at a path.
fileAt(fs, path) ==
    IF path.file = PACKAGE_JSON THEN fs[path.dir].pkg
    ELSE makefileIn(fs, path.dir, path.file)

\* existsSync(path) for a file of the model.
existsSync(fs, path) ==
    IF path.file = PACKAGE_JSON THEN fs[path.dir].pkg.exists
    ELSE IF path.file = PNPM_WORKSPACE_YAML THEN fs[path.dir].pnpm
    ELSE makefileIn(fs, path.dir, path.file).exists

(***************************************************************************)
(* The content of a package.json                                           *)
(***************************************************************************)

\* Text that JSON.parse rejects.
InvalidJson == [json |-> "invalid"]

\* The text `null`: JSON.parse returns null.
JsonNull == [json |-> "null"]

\* A JSON object; scripts is absent, or an object whose entries are in
\* declaration order, or a value that is not an object.
Manifest(workspaces, scripts) ==
    [json |-> "object", workspaces |-> workspaces, scripts |-> scripts]

ScriptsAbsent == [kind |-> "absent"]
ScriptsString == [kind |-> "string"]
ScriptsObject(entries) == [kind |-> "object", entries |-> entries]
ScriptsNumber == [kind |-> "number"]
ScriptsNull == [kind |-> "null"]
ScriptsArray(items) == [kind |-> "array", items |-> items]

(***************************************************************************)
(* The upward walks                                                        *)
(***************************************************************************)

NotFound == [found |-> FALSE]
Found(path) == [found |-> TRUE, path |-> path]

\* findPackageJson(startDir): while (currentDir !== '/') { ... }
RECURSIVE findPackageJson(_, _)
findPackageJson(fs, currentDir) ==
    IF currentDir = RootDir THEN NotFound
    ELSE IF existsSync(fs, join(currentDir, PACKAGE_JSON))
    THEN Found(join(currentDir, PACKAGE_JSON))
    ELSE findPackageJson(fs, dirname(currentDir))

\* JSON.parse(content).workspaces is truthy; a parse error is caught.
declaresWorkspaces(fs, dir) ==
    LET content == fs[dir].pkg.content
    IN  content.json = "object" /\ content.workspaces

\* findMonorepoRoot without the workspaces test: any package.json is a root
RECURSIVE findMonorepoRootAnyPackage(_, _)
findMonorepoRootAnyPackage(fs, currentDir) ==
    IF currentDir = RootDir THEN NotFound
    ELSE IF existsSync(fs, join(currentDir, PACKAGE_JSON))
    THEN Found(currentDir)
    ELSE findMonorepoRootAnyPackage(fs, dirname(currentDir))

\* findMonorepoRoot(startDir): the pnpm-workspace.yaml test is inside the
\* test for package.json.
RECURSIVE findMonorepoRoot(_, _)
findMonorepoRoot(fs, currentDir) ==
    IF currentDir = RootDir THEN NotFound
    ELSE IF /\ existsSync(fs, join(currentDir, PACKAGE_JSON))
            /\ \/ declaresWorkspaces(fs, currentDir)
               \/ existsSync(fs, join(currentDir, PNPM_WORKSPACE_YAML))
    THEN Found(currentDir)
    ELSE findMonorepoRoot(fs, dirname(currentDir))

\* The files findMonorepoRoot(startDir) passes to readFile and JSON.parse:
\* the package.json of every directory it visits that has one, up to the
\* directory it returns.
RECURSIVE monorepoRootReads(_, _)
monorepoRootReads(fs, currentDir) ==
    IF currentDir = RootDir THEN <<>>
    ELSE IF ~existsSync(fs, join(currentDir, PACKAGE_JSON))
    THEN monorepoRootReads(fs, dirname(currentDir))
    ELSE <<join(currentDir, PACKAGE_JSON)>> \o
         (IF \/ declaresWorkspaces(fs, currentDir)
             \/ existsSync(fs, join(currentDir, PNPM_WORKSPACE_YAML))
          THEN <<>>
          ELSE monorepoRootReads(fs, dirname(currentDir)))

(***************************************************************************)
(* The tree walk                                                           *)
(***************************************************************************)

\* The subdirectories of dir, in readdir's order.
RECURSIVE subdirsIn(_, _)
subdirsIn(dir, order) ==
    IF order = <<>> THEN <<>>
    ELSE (IF Head(order) # RootDir /\ dirname(Head(order)) = dir
          THEN <<Head(order)>> ELSE <<>>) \o subdirsIn(dir, Tail(order))

\* readdir(dir, { withFileTypes: true }): the files, then the subdirectories.
readdir(fs, dir) ==
    (IF fs[dir].pkg.exists
     THEN <<[name |-> PACKAGE_JSON, isDirectory |-> FALSE, path |-> join(dir, PACKAGE_JSON)]>>
     ELSE <<>>)
    \o (IF fs[dir].pnpm
        THEN <<[name |-> PNPM_WORKSPACE_YAML, isDirectory |-> FALSE,
                path |-> join(dir, PNPM_WORKSPACE_YAML)]>>
        ELSE <<>>)
    \o [i \in 1..Len(fs[dir].makefiles) |->
           [name |-> fs[dir].makefiles[i].name, isDirectory |-> FALSE,
            path |-> join(dir, fs[dir].makefiles[i].name)]]
    \o LET subdirs == subdirsIn(dir, DirOrder)
       IN  [i \in 1..Len(subdirs) |->
              [name |-> subdirs[i][Len(subdirs[i])],
               isDirectory |-> TRUE,
               path |-> subdirs[i]]]

\* The test of the walk with no directory name skipped
isSkippedNever(name) == FALSE

\* entry.name === 'node_modules' || ... || entry.name === 'coverage'
isSkipped(name) == name \in SkippedDirNames

\* walk(dir): for (const entry of entries) { ... }, results in push order.
RECURSIVE walkEntries(_, _)
walkEntries(fs, entries) ==
    IF entries = <<>> THEN <<>>
    ELSE LET entry == Head(entries)
         IN  (IF entry.isDirectory
              THEN (IF isSkipped(entry.name) THEN <<>>
                    ELSE walkEntries(fs, readdir(fs, entry.path)))
              ELSE IF entry.name = PACKAGE_JSON THEN <<entry.path>>
              ELSE <<>>)
             \o walkEntries(fs, Tail(entries))

\* findAllPackageJsons(rootDir)
findAllPackageJsons(fs, rootDir) == walkEntries(fs, readdir(fs, rootDir))

\* walk(dir) rejects: `await readdir(dir)` of a directory the walk enters
\* throws, and nothing catches it.
RECURSIVE walkThrows(_, _)
walkThrows(fs, entries) ==
    IF entries = <<>> THEN FALSE
    ELSE LET entry == Head(entries)
         IN  \/ /\ entry.isDirectory
                /\ ~isSkipped(entry.name)
                /\ \/ fs[entry.path].unreadable
                   \/ walkThrows(fs, readdir(fs, entry.path))
             \/ walkThrows(fs, Tail(entries))

\* findAllPackageJsons(rootDir) rejects.
findAllPackageJsonsThrows(fs, rootDir) ==
    fs[rootDir].unreadable \/ walkThrows(fs, readdir(fs, rootDir))

(***************************************************************************)
(* String comparison                                                       *)
(***************************************************************************)

\* The characters in the order of the collation String.prototype.localeCompare
\* uses (the root collation: punctuation, digits, letters; a letter's case
\* decides only between strings that are otherwise equal).
CollationOrder ==
    <<" ", "_", "-", ",", ";", ":", "!", "?", ".", "(", ")", "[", "]",
      "{", "}", "@", "*", "/", "&", "#", "%", "^", "+", "<", "=", ">",
      "|", "~", "$", "0", "1", "2", "3", "4", "5", "6", "7", "8", "9">>
    \o LowerCaseLetters

\* The place of each character in the collation, a letter's case put aside.
CollationWeight ==
    [c \in Range(CollationOrder) \cup Range(UpperCaseLetters) |->
        CHOOSE i \in 1..Len(CollationOrder) : CollationOrder[i] = toLowerCaseChar(c)]

primaryWeight(c) == CollationWeight[c]

primaryKey(str) == [i \in 1..Len(str) |-> primaryWeight(str[i])]

tertiaryKey(str) ==
    [i \in 1..Len(str) |-> IF str[i] \in Range(UpperCaseLetters) THEN 1 ELSE 0]

\* -1, 0 or 1 as the sequence of numbers x is before, equal to or after y.
RECURSIVE compareFrom(_, _, _)
compareFrom(x, y, i) ==
    IF i > Len(x) /\ i > Len(y) THEN 0
    ELSE IF i > Len(x) THEN -1
    ELSE IF i > Len(y) THEN 1
    ELSE IF x[i] < y[i] THEN -1
    ELSE IF x[i] > y[i] THEN 1
    ELSE compareFrom(x, y, i + 1)

compareKeys(x, y) == compareFrom(x, y, 1)

\* a.localeCompare(b)
localeCompare(a, b) ==
    IF compareKeys(primaryKey(a), primaryKey(b)) # 0
    THEN compareKeys(primaryKey(a), primaryKey(b))
    ELSE compareKeys(tertiaryKey(a), tertiaryKey(b))

(***************************************************************************)
(* parsePackageJson                                                        *)
(***************************************************************************)

ROOT_LABEL == <<"(","r","o","o","t",")">>

\* parts.join('/')
RECURSIVE joinSlash(_)
joinSlash(parts) ==
    IF parts = <<>> THEN <<>>
    ELSE IF Len(parts) = 1 THEN Head(parts)
    ELSE Head(parts) \o <<"/">> \o joinSlash(Tail(parts))

\* path.relative(from, to) for a directory `to` at or below `from`.
relative(from, to) == joinSlash(SubSeq(to, Len(from) + 1, Len(to)))

\* getPackageDisplayName(packagePath, monorepoRoot)
getPackageDisplayName(packagePath, monorepoRoot) ==
    IF relative(monorepoRoot, packagePath.dir) = <<>>
    THEN ROOT_LABEL
    ELSE relative(monorepoRoot, packagePath.dir)

\* A ScriptInfo.
ScriptInfo(name, command, packageName, packagePath) ==
    [name |-> name, command |-> command,
     packageName |-> packageName, packagePath |-> packagePath]

\* Object.entries(packageJson.scripts).map(...)
mapEntries(entries, packageName, packagePath) ==
    [i \in 1..Len(entries) |->
        ScriptInfo(entries[i].name, entries[i].command, packageName, packagePath)]

\* !packageJson.scripts is false: the string and the number of the model are
\* not '' and not 0.
truthyScripts(scripts) == scripts.kind \notin {"absent", "null"}

\* typeof packageJson.scripts
typeofScripts(scripts) ==
    IF scripts.kind \in {"object", "array", "null"} THEN "object"
    ELSE IF scripts.kind = "absent" THEN "undefined"
    ELSE scripts.kind

\* Object.entries(packageJson.scripts): the entries of an object in
\* declaration order; the indices and the elements of an array.
entriesOfScripts(scripts) ==
    IF scripts.kind = "array"
    THEN [i \in 1..Len(scripts.items) |->
             [name |-> <<Digits[i]>>, command |-> scripts.items[i]]]
    ELSE scripts.entries

\* parsePackageJson(packagePath, monorepoRoot?): monorepoRoot is Undefined
\* in single package mode.  A file that cannot be read or parsed gives [],
\* and so does JSON.parse returning null (reading .scripts of it throws).
parsePackageJson(fs, packagePath, monorepoRoot) ==
    LET file == fs[packagePath.dir].pkg
    IN  IF ~file.exists THEN <<>>
        ELSE IF file.content.json # "object" THEN <<>>
        ELSE IF \/ ~truthyScripts(file.content.scripts)
                \/ typeofScripts(file.content.scripts) # "object"
        THEN <<>>
        ELSE mapEntries(entriesOfScripts(file.content.scripts),
                        IF monorepoRoot = Undefined THEN Undefined
                        ELSE Str(getPackageDisplayName(packagePath, monorepoRoot.str)),
                        IF monorepoRoot = Undefined THEN Undefined
                        ELSE Str(packagePath.dir))

\* for (const pkgPath of packageJsonPaths) allScripts.push(...scripts)
RECURSIVE parseAll(_, _, _)
parseAll(fs, packageJsonPaths, monorepoRoot) ==
    IF packageJsonPaths = <<>> THEN <<>>
    ELSE parsePackageJson(fs, Head(packageJsonPaths), Str(monorepoRoot))
            \o parseAll(fs, Tail(packageJsonPaths), monorepoRoot)

(***************************************************************************)
(* The sort of workspace mode                                              *)
(***************************************************************************)

\* (a.packageName || '')
labelOrEmpty(script) ==
    IF script.packageName = Undefined THEN <<>> ELSE script.packageName.str

\* The comparator of allScripts.sort.
compareScripts(a, b) ==
    IF localeCompare(labelOrEmpty(a), labelOrEmpty(b)) # 0
    THEN localeCompare(labelOrEmpty(a), labelOrEmpty(b))
    ELSE localeCompare(a.name, b.name)

\* Array.prototype.sort is stable: x goes after the elements that do not
\* compare greater.
RECURSIVE insertSorted(_, _)
insertSorted(sorted, x) ==
    IF sorted = <<>> THEN <<x>>
    ELSE IF compareScripts(Head(sorted), x) > 0 THEN <<x>> \o sorted
    ELSE <<Head(sorted)>> \o insertSorted(Tail(sorted), x)

RECURSIVE sortFrom(_, _)
sortFrom(sorted, rest) ==
    IF rest = <<>> THEN sorted
    ELSE sortFrom(insertSorted(sorted, Head(rest)), Tail(rest))

\* allScripts.sort((a, b) => ...)
sortScripts(scripts) == sortFrom(<<>>, scripts)

(***************************************************************************)
(* The mtime cache                                                         *)
(***************************************************************************)

\* 24 * 60 * 60 * 1000 milliseconds
CACHE_TTL_MS == 86400000

\* keys.length > 50
MAX_CACHE_ENTRIES == 50

\* A property JSON.stringify left out: it reads as undefined.
Absent == [absent |-> TRUE]

\* JSON.parse(JSON.stringify(scripts)): the properties that are undefined
\* are not written.
jsonRoundTrip(scripts) ==
    [i \in 1..Len(scripts) |->
        LET packageName == IF scripts[i].packageName = Undefined THEN Absent
                           ELSE scripts[i].packageName
            packagePath == IF scripts[i].packagePath = Undefined THEN Absent
                           ELSE scripts[i].packagePath
        IN  IF "source" \in DOMAIN scripts[i]
            THEN [name |-> scripts[i].name, command |-> scripts[i].command,
                  source |-> scripts[i].source,
                  packageName |-> packageName, packagePath |-> packagePath]
            ELSE [name |-> scripts[i].name, command |-> scripts[i].command,
                  packageName |-> packageName, packagePath |-> packagePath]]

\* The cache file: absent, text that is not JSON, the JSON of a CacheData,
\* JSON that has no entries property (such as {}), or a file that the
\* process may neither read nor write.
StoreAbsent == [kind |-> "absent"]
StoreInvalid == [kind |-> "invalid"]
StoreData(entries) == [kind |-> "data", entries |-> entries]
StoreNoEntries == [kind |-> "noentries"]
StoreLocked == [kind |-> "locked"]

\* A function with no argument: the entries of an empty cache, the mtimes of
\* no file.
EmptyMap == [k \in {} |-> 0]

\* readCache(): whatever JSON.parse gives, and { version: 1, entries: {} }
\* when the file is absent or cannot be read or parsed.
readCache(store) ==
    IF store.kind = "data" THEN [version |-> 1, entries |-> store.entries]
    ELSE IF store.kind = "noentries" THEN [version |-> 1]
    ELSE [version |-> 1, entries |-> EmptyMap]

\* cache.entries is an object: cache.entries[cacheKey] does not throw.
hasEntries(cache) == "entries" \in DOMAIN cache

\* writeCache(data): the cache file after it; a failure of writeFile is
\* swallowed and leaves the file as it was.
writeCache(store, data) ==
    IF store.kind = "locked" THEN store ELSE StoreData(data.entries)

\* `single:${packagePath}`, `workspaces:${monorepoRoot}`
cacheKey(prefix, path) == [prefix |-> prefix, path |-> path]

\* (await stat(path)).mtimeMs, and 0 when stat throws.
mtimeOrZero(fs, path) ==
    IF existsSync(fs, path) THEN fileAt(fs, path).mtime ELSE 0

\* getMtimes(packageJsonPaths)
getMtimes(fs, packageJsonPaths) ==
    [path \in Range(packageJsonPaths) |-> mtimeOrZero(fs, path)]

\* The characters in the order of their UTF-16 code units.
CodeUnitOrder ==
    <<" ", "!", "#", "$", "%", "&", "(", ")", "*", "+", ",", "-", ".", "/",
      "0", "1", "2", "3", "4", "5", "6", "7", "8", "9", ":", ";", "<", "=",
      ">", "?", "@">>
    \o UpperCaseLetters \o <<"[", "]", "^", "_">> \o LowerCaseLetters
    \o <<"{", "|", "}", "~">>

CodeUnitRank ==
    [c \in Range(CodeUnitOrder) |->
        CHOOSE k \in 1..Len(CodeUnitOrder) : CodeUnitOrder[k] = c]

codeUnitKey(str) == [i \in 1..Len(str) |-> CodeUnitRank[str[i]]]

\* The string of a path: '/w/a/package.json'.
RECURSIVE slashed(_)
slashed(dir) ==
    IF dir = <<>> THEN <<>> ELSE <<"/">> \o Head(dir) \o slashed(Tail(dir))

pathString(path) ==
    IF path.file = <<>> THEN (IF path.dir = <<>> THEN <<"/">> ELSE slashed(path.dir))
    ELSE slashed(path.dir) \o <<"/">> \o path.file

\* Object.keys(record).sort(): by code units.
RECURSIVE sortedKeys(_)
sortedKeys(keys) ==
    IF keys = {} THEN <<>>
    ELSE LET first == CHOOSE k \in keys : \A other \in keys :
                        compareKeys(codeUnitKey(pathString(k)),
                                    codeUnitKey(pathString(other))) <= 0
         IN  <<first>> \o sortedKeys(keys \ {first})

\* mtimesMatch that does not compare the times
mtimesMatchKeysOnly(cached, current) == DOMAIN cached = DOMAIN current

\* mtimesMatch(cached, current)
mtimesMatch(cached, current) ==
    LET cachedKeys == sortedKeys(DOMAIN cached)
        currentKeys == sortedKeys(DOMAIN current)
    IN  IF Len(cachedKeys) # Len(currentKeys) THEN FALSE
        ELSE \A i \in 1..Len(cachedKeys) :
                /\ cachedKeys[i] = currentKeys[i]
                /\ cached[cachedKeys[i]] = current[currentKeys[i]]

Miss == [hit |-> FALSE, threw |-> FALSE]
Hit(scripts) == [hit |-> TRUE, threw |-> FALSE, scripts |-> scripts]
\* The promise is rejected with a TypeError.
Throws == [hit |-> FALSE, threw |-> TRUE]

\* getCachedScripts(cacheKey, packageJsonPaths): null (Miss) or entry.scripts.
getCachedScripts(store, fs, now, key, packageJsonPaths) ==
    LET cache == readCache(store)
    IN  IF ~hasEntries(cache) THEN Throws
        ELSE IF key \notin DOMAIN cache.entries THEN Miss
        ELSE IF now - cache.entries[key].timestamp > CACHE_TTL_MS THEN Miss
        ELSE IF ~mtimesMatch(cache.entries[key].mtimes, getMtimes(fs, packageJsonPaths))
        THEN Miss
        ELSE Hit(cache.entries[key].scripts)

\* The keys of the newest records.
RECURSIVE newestKeys(_, _)
newestKeys(entries, n) ==
    IF n <= 0 \/ DOMAIN entries = {} THEN {}
    ELSE LET newest == CHOOSE k \in DOMAIN entries : \A other \in DOMAIN entries :
                            entries[k].timestamp >= entries[other].timestamp
         IN  {newest} \cup
             newestKeys([k \in DOMAIN entries \ {newest} |-> entries[k]], n - 1)

\* The keys the clean-up deletes: the keys.length - 50 oldest by timestamp.
RECURSIVE oldestKeys(_, _)
oldestKeys(entries, n) ==
    IF n <= 0 \/ DOMAIN entries = {} THEN {}
    ELSE LET oldest == CHOOSE k \in DOMAIN entries : \A other \in DOMAIN entries :
                            entries[k].timestamp <= entries[other].timestamp
         IN  {oldest} \cup
             oldestKeys([k \in DOMAIN entries \ {oldest} |-> entries[k]], n - 1)

\* `if (keys.length > 50)`: the keys the clean-up deletes.
keysToDelete(entries) ==
    IF Cardinality(DOMAIN entries) > MAX_CACHE_ENTRIES
    THEN oldestKeys(entries, Cardinality(DOMAIN entries) - MAX_CACHE_ENTRIES)
    ELSE {}

\* The record put without the mtimes.
putRecordBare(cache, key, scripts, mtimes, now) ==
    [version |-> 1,
     entries |-> [k \in DOMAIN cache.entries \cup {key} |->
                     IF k = key
                     THEN [scripts |-> jsonRoundTrip(scripts), mtimes |-> EmptyMap,
                           timestamp |-> now]
                     ELSE cache.entries[k]]]

\* setCachedScripts between its awaits: the cache read, with the record put
\* under its key and the oldest records deleted.
putRecord(cache, key, scripts, mtimes, now) ==
    LET entry == [scripts |-> jsonRoundTrip(scripts), mtimes |-> mtimes,
                  timestamp |-> now]
        entries == [k \in DOMAIN cache.entries \cup {key} |->
                        IF k = key THEN entry ELSE cache.entries[k]]
    IN  [version |-> 1,
         entries |-> [k \in DOMAIN entries \ keysToDelete(entries) |-> entries[k]]]

\* setCachedScripts that writes nothing
setCachedScriptsNoWrite(store, fs, now, key, scripts, packageJsonPaths) == store

\* cache.entries[cacheKey] = ... throws a TypeError.
setCachedScriptsThrows(store) == ~hasEntries(readCache(store))

\* setCachedScripts(cacheKey, scripts, packageJsonPaths) with nothing else
\* running between its awaits: the cache file after it; nothing is written
\* when it throws.
setCachedScripts(store, fs, now, key, scripts, packageJsonPaths) ==
    IF ~hasEntries(readCache(store)) THEN store
    ELSE writeCache(store, putRecord(readCache(store), key, scripts,
                                     getMtimes(fs, packageJsonPaths), now))

(***************************************************************************)
(* getScripts                                                              *)
(***************************************************************************)

\* What a call of getScripts gives: the returned array (or the rejection of
\* the promise), the messages written with console.error, the cache file
\* after the call, and what the call did: the workspace root and the
\* definition files it resolved, whether the cache answered, and the files it
\* passed to readFile and JSON.parse, in order.
Outcome(result, log, store, root, files, cached, reads) ==
    [result |-> result, rejected |-> FALSE, log |-> log, store |-> store,
     root |-> root, files |-> files, cached |-> cached, reads |-> reads]

\* The promise of getScripts is rejected: an exception left the function.
Rejected(store, root, files, reads) ==
    [result |-> <<>>, rejected |-> TRUE, log |-> <<>>, store |-> store,
     root |-> root, files |-> files, cached |-> FALSE, reads |-> reads]

\* getScripts({ workspaces: false }): single package mode.
getScriptsSingle(fs, store, now, cwd) ==
    LET packagePath == findPackageJson(fs, cwd)
        key == cacheKey("single", packagePath.path)
        cached == getCachedScripts(store, fs, now, key, <<packagePath.path>>)
        scripts == parsePackageJson(fs, packagePath.path, Undefined)
    IN  IF ~packagePath.found
        THEN Outcome(<<>>, <<"No package.json found">>, store, NotFound, <<>>, FALSE, <<>>)
        ELSE IF cached.threw
        THEN Outcome(<<>>, <<"Failed to read package.json">>, store, NotFound,
                     <<packagePath.path>>, FALSE, <<>>)
        ELSE IF cached.hit
        THEN Outcome(cached.scripts, <<>>, store, NotFound, <<packagePath.path>>,
                     TRUE, <<>>)
        ELSE Outcome(scripts, <<>>,
                     setCachedScripts(store, fs, now, key, scripts, <<packagePath.path>>),
                     NotFound, <<packagePath.path>>, FALSE, <<packagePath.path>>)

\* getScripts({ workspaces: true }) once the root is resolved.
getScriptsInRoot(fs, store, now, monorepoRoot) ==
    LET packageJsonPaths == findAllPackageJsons(fs, monorepoRoot)
        key == cacheKey("workspaces", join(monorepoRoot, <<>>))
        cached == getCachedScripts(store, fs, now, key, packageJsonPaths)
        allScripts == parseAll(fs, packageJsonPaths, monorepoRoot)
        sorted == sortScripts(allScripts)
    IN  IF findAllPackageJsonsThrows(fs, monorepoRoot)
        THEN Rejected(store, Found(monorepoRoot), <<>>, <<>>)
        ELSE IF packageJsonPaths = <<>>
        THEN Outcome(<<>>, <<"No package.json files found in monorepo">>, store,
                     Found(monorepoRoot), <<>>, FALSE, <<>>)
        ELSE IF cached.threw
        THEN Rejected(store, Found(monorepoRoot), packageJsonPaths, <<>>)
        ELSE IF cached.hit
        THEN Outcome(cached.scripts, <<>>, store, Found(monorepoRoot),
                     packageJsonPaths, TRUE, <<>>)
        ELSE IF allScripts = <<>>
        THEN Outcome(<<>>, <<"No scripts found in any package.json files">>, store,
                     Found(monorepoRoot), packageJsonPaths, FALSE, packageJsonPaths)
        ELSE Outcome(sorted, <<>>,
                     setCachedScripts(store, fs, now, key, sorted, packageJsonPaths),
                     Found(monorepoRoot), packageJsonPaths, FALSE, packageJsonPaths)

\* getScripts(options)
getScripts(fs, store, now, cwd, workspaces) ==
    LET monorepoRoot == findMonorepoRoot(fs, cwd)
        rootReads == monorepoRootReads(fs, cwd)
    IN  IF workspaces
        THEN IF ~monorepoRoot.found
             THEN [getScriptsSingle(fs, store, now, cwd) EXCEPT
                     !.log = <<"No monorepo root found",
                               "Falling back to single package.json mode">> \o @,
                     !.reads = rootReads \o @]
             ELSE [getScriptsInRoot(fs, store, now, monorepoRoot.path) EXCEPT
                     !.reads = rootReads \o @]
        ELSE getScriptsSingle(fs, store, now, cwd)

(***************************************************************************)
(* getScripts and setCachedScripts between their awaits                    *)
(***************************************************************************)

\* An invocation has not resolved a key, or a root.
NoKey == cacheKey("none", join(RootDir, <<>>))

\* An invocation in progress: where it is, its arguments, what it has
\* resolved and read so far, what it returns, and how many changes the files
\* had seen when it began.
NewJob(op, began) ==
    [op |-> op, pc |-> "done", cwd |-> RootDir, workspaces |-> FALSE,
     key |-> NoKey, paths |-> <<>>, root |-> Undefined, scripts |-> <<>>,
     cache |-> [version |-> 1, entries |-> EmptyMap], mtimes |-> EmptyMap,
     result |-> <<>>, hit |-> FALSE, began |-> began]

\* getScripts up to the answer of getCachedScripts: the workspace root (in
\* workspace mode, when there is one), the definition files, the cache key
\* and the cache's answer.
lookup(fs, store, now, cwd, workspaces) ==
    LET monorepoRoot == findMonorepoRoot(fs, cwd)
        packagePath == findPackageJson(fs, cwd)
        inRoot == workspaces /\ monorepoRoot.found
        paths == IF inRoot THEN findAllPackageJsons(fs, monorepoRoot.path)
                 ELSE IF packagePath.found THEN <<packagePath.path>>
                 ELSE <<>>
        key == IF inRoot THEN cacheKey("workspaces", join(monorepoRoot.path, <<>>))
               ELSE IF packagePath.found THEN cacheKey("single", packagePath.path)
               ELSE NoKey
    IN  [root |-> IF inRoot THEN Str(monorepoRoot.path) ELSE Undefined,
         paths |-> paths, key |-> key,
         cached |-> IF paths = <<>> THEN Miss
                    ELSE getCachedScripts(store, fs, now, key, paths)]

\* The definition files parsed: one file in single package mode, every file
\* of the walk, sorted, in workspace mode.
parseFor(fs, paths, root) ==
    IF root = Undefined THEN parsePackageJson(fs, paths[1], Undefined)
    ELSE sortScripts(parseAll(fs, paths, root.str))

\* The invocation after the look-up: it returns [] when it resolved no
\* definition file or the cache threw, the cached list on a hit, and goes
\* on to parse otherwise.
afterLookup(job, found) ==
    IF found.paths = <<>> \/ found.cached.threw
    THEN [job EXCEPT !.pc = "done", !.paths = found.paths]
    ELSE IF found.cached.hit
    THEN [job EXCEPT !.pc = "done", !.root = found.root, !.paths = found.paths,
                     !.key = found.key, !.hit = TRUE,
                     !.result = found.cached.scripts]
    ELSE [job EXCEPT !.pc = "parse", !.root = found.root, !.paths = found.paths,
                     !.key = found.key]

\* The invocation after the parse: workspace mode returns [] without
\* storing when no script was found; otherwise the list goes to
\* setCachedScripts and is returned after it.
afterParse(job, scripts) ==
    IF job.root # Undefined /\ scripts = <<>>
    THEN [job EXCEPT !.pc = "done"]
    ELSE [job EXCEPT !.pc = "read", !.scripts = scripts, !.result = scripts]

(***************************************************************************)
(* detectPackageManager and runScript                                      *)
(***************************************************************************)

\* The lockfiles, in the order in which they are looked for.
lockfiles ==
    << [file |-> "bun.lockb", pm |-> "bun"],
       [file |-> "bun.lock", pm |-> "bun"],
       [file |-> "pnpm-lock.yaml", pm |-> "pnpm"],
       [file |-> "yarn.lock", pm |-> "yarn"],
       [file |-> "package-lock.json", pm |-> "npm"] >>

\* The `for` loop over lockfiles in one directory, from the i-th on: the
\* package manager of the first lockfile that exists, or undefined.
RECURSIVE firstLockfile(_, _, _)
firstLockfile(fs, dir, i) ==
    IF i > Len(lockfiles) THEN Undefined
    ELSE IF lockfiles[i].file \in fs[dir].locks THEN Str(lockfiles[i].pm)
    ELSE firstLockfile(fs, dir, i + 1)

\* The `while (currentDir !== '/')` loop of detectPackageManager.
RECURSIVE detectFrom(_, _)
detectFrom(fs, currentDir) ==
    IF currentDir = RootDir THEN "npm"
    ELSE IF firstLockfile(fs, currentDir, 1) # Undefined
    THEN firstLockfile(fs, currentDir, 1).str
    ELSE detectFrom(fs, dirname(currentDir))

\* detectPackageManager(startDir): the package manager returned and the memo
\* (cachedDir, cachedPM) it leaves.
detectPackageManager(memo, fs, startDir) ==
    IF memo.cachedDir = Str(startDir) /\ memo.cachedPM # Undefined
    THEN [pm |-> memo.cachedPM.str, memo |-> memo]
    ELSE [pm |-> detectFrom(fs, startDir),
          memo |-> [cachedDir |-> Str(startDir), cachedPM |-> Str(detectFrom(fs, startDir))]]

\* A promise: pending, or resolved with a value.  resolve() of a promise
\* that is no longer pending does nothing.
Pending == [state |-> "pending"]
Resolved(value) == [state |-> "resolved", value |-> value]
resolve(promise, value) == IF promise = Pending THEN Resolved(value) ELSE promise

\* `await promise` goes on once the promise is resolved.
awaitedAlways(promise) == TRUE
awaited(promise) == promise # Pending

\* How a child process ended: with an exit code, or by a signal (and the
\* code null).
Exited(code) == [code |-> code]
Signalled == [signal |-> "SIGTERM"]
NotEnded == [running |-> TRUE]

\* code === 0
isZero(status) == "code" \in DOMAIN status /\ status.code = 0

\* The program and the arguments of the spawn() call of runScript.
spawnArgsNpmOnly(pm, scriptName, source) ==
    [program |-> pm, args |-> <<"run", scriptName>>]
spawnArgs(pm, scriptName, source) ==
    IF source = "make"
    THEN [program |-> "make", args |-> <<scriptName>>]
    ELSE [program |-> pm, args |-> <<"run", scriptName>>]

\* runScript(scriptName, cwd, source) up to the return of the promise, with
\* process.cwd() = processCwd: the child spawned and the memo left.  The
\* package manager is detected only for a source other than 'make'.
runScript(memo, fs, processCwd, scriptName, cwd, source) ==
    LET workingDir == IF cwd \in {Undefined, Absent} THEN processCwd ELSE cwd.str
        detected == detectPackageManager(memo, fs, workingDir)
        command == spawnArgs(detected.pm, scriptName, source)
    IN  [child |-> [program |-> command.program, args |-> command.args,
                    cwd |-> workingDir, shell |-> TRUE, source |-> source,
                    state |-> "spawned", status |-> NotEnded,
                    promise |-> Pending],
         memo |-> IF source = "make" THEN memo ELSE detected.memo]

\* child.on('close', code => resolve(code === 0)): code is a number, or
\* null when a signal ended the process.
onClose(child, status) ==
    [child EXCEPT !.state = "closed", !.status = status,
                  !.promise = resolve(child.promise, isZero(status))]

\* child.on('error', err => resolve(false)): the process could not be
\* spawned.  The 'close' event follows.
onErrorNoResolve(child) == [child EXCEPT !.state = "failed"]
onError(child) ==
    [child EXCEPT !.state = "failed", !.promise = resolve(child.promise, FALSE)]

(***************************************************************************)
(* The interactive runner                                                  *)
(***************************************************************************)

\* A value is truthy: a string that is not empty.
truthy(v) == v \notin {Undefined, Absent} /\ v.str # <<>>

\* scripts.some((s) => s.packageName)
isMonorepo(scripts) == \E i \in 1..Len(scripts) : truthy(scripts[i].packageName)

\* The text of a template placeholder.
templateText(v) ==
    IF v \in {Undefined, Absent} THEN <<"u","n","d","e","f","i","n","e","d">> ELSE v.str

\* getScriptKey(s)
getScriptKey(monorepo, s) ==
    IF monorepo THEN templateText(s.packageName) \o <<":">> \o s.name ELSE s.name

\* The choices of the prompt: one for each script, named by its key.
choicesOf(scripts) ==
    [i \in 1..Len(scripts) |-> [name |-> getScriptKey(isMonorepo(scripts), scripts[i])]]

\* array.indexOf(value), counted from 1; 0 when the value is not there.
indexOf(array, value) ==
    IF \E i \in 1..Len(array) : array[i] = value
    THEN CHOOSE i \in 1..Len(array) :
            array[i] = value /\ \A j \in 1..(i - 1) : array[j] # value
    ELSE 0

\* array.splice(idx, 1)
splice(array, idx) == SubSeq(array, 1, idx - 1) \o SubSeq(array, idx + 1, Len(array))

\* The overridden toggle(choice): selectionOrder after it.
toggleOrder(selectionOrder, wasEnabled, name) ==
    IF ~wasEnabled
    THEN IF indexOf(selectionOrder, name) # 0 THEN selectionOrder
         ELSE Append(selectionOrder, name)
    ELSE IF indexOf(selectionOrder, name) # 0
         THEN splice(selectionOrder, indexOf(selectionOrder, name))
         ELSE selectionOrder

\* scripts.find((s) => getScriptKey(s) === scriptKey): the index of the
\* first script of that key, 0 when there is none.
findScript(scripts, scriptKey) == indexOf([i \in 1..Len(scripts) |-> choicesOf(scripts)[i].name], scriptKey)

\* What confirmMultiSelect returns for the answer to its prompt: the answer,
\* and false when the prompt is aborted.
confirmedAlways(answer) == TRUE
confirmed(answer) == answer = "yes"

\* The `for` loop over selectedScriptKeys from its position on, up to the
\* next await that does not go on at once or to the return: a key that no
\* script has is passed over, and runScript is called for the first script
\* of a key.
RECURSIVE runFrom(_, _, _)
runFrom(u, memo, fs) ==
    IF u.at > Len(u.selected)
    THEN [ui |-> [u EXCEPT !.pc = "returned", !.ended = "ran"], memo |-> memo]
    ELSE LET idx == findScript(u.scripts, u.selected[u.at])
         IN  IF idx = 0
             THEN runFrom([u EXCEPT !.at = @ + 1], memo, fs)
             ELSE LET run == runScript(memo, fs, u.cwd, u.scripts[idx].name,
                                       u.scripts[idx].packagePath, "npm")
                      next == [u EXCEPT !.at = @ + 1, !.pc = "await",
                                        !.children = Append(@, run.child),
                                        !.launched = Append(@, u.selected[u.at])]
                  IN  IF awaited(run.child.promise)
                      THEN runFrom(next, run.memo, fs)
                      ELSE [ui |-> next, memo |-> run.memo]

\* The runner after an event of its k-th child has been handled: when the
\* event resolved the promise the loop awaits, the loop goes on.
afterEvent(u, k, child, memo, fs) ==
    LET handled == [u EXCEPT !.children[k] = child]
    IN  IF /\ u.pc = "await"
           /\ k = Len(u.children)
           /\ u.children[k].promise = Pending
           /\ awaited(child.promise)
        THEN runFrom(handled, memo, fs)
        ELSE [ui |-> handled, memo |-> memo]

\* The runner after prompt.run() has resolved with the focus on the index-th
\* choice shown (0: no choice is shown): the keys to run are selectionOrder,
\* or the focused choice when it is empty; more than one key is confirmed
\* first, and confirmMultiSelect detects the package manager of process.cwd().
afterPrompt(u, index, memo, fs) ==
    LET keys == IF Len(u.selectionOrder) > 0 THEN u.selectionOrder
                ELSE IF index # 0 THEN <<choicesOf(u.scripts)[index].name>>
                ELSE <<>>
        chosen == [u EXCEPT !.index = index, !.selected = keys]
    IN  IF keys = <<>>
        THEN [ui |-> [chosen EXCEPT !.pc = "returned", !.ended = "none selected"],
              memo |-> memo]
        ELSE IF Len(keys) > 1
        THEN [ui |-> [chosen EXCEPT !.pc = "confirm"],
              memo |-> detectPackageManager(memo, fs, u.cwd).memo]
        ELSE runFrom(chosen, memo, fs)

\* The runner after confirmMultiSelect has returned.
afterConfirm(u, answer, memo, fs) ==
    IF confirmed(answer) THEN runFrom(u, memo, fs)
    ELSE [ui |-> [u EXCEPT !.pc = "returned", !.ended = "cancelled"], memo |-> memo]

(***************************************************************************)
(* parseMakefile                                                           *)
(*                                                                         *)
(* Positions are those of JavaScript: the first character of a string is   *)
(* at index 0, which is element 1 of the sequence.                         *)
(***************************************************************************)

LetterChars == Range(UpperCaseLetters) \cup Range(LowerCaseLetters)
DigitChars == {"0", "1", "2", "3", "4", "5", "6", "7", "8", "9"}

\* [a-zA-Z_]
targetFirstChar == LetterChars \cup {"_"}

\* [a-zA-Z0-9_-]
targetChar == LetterChars \cup DigitChars \cup {"_", "-"}

\* The characters after which ^ matches under the m flag.
LineTerminators == {"\n", "\r"}

\* String.prototype.slice(start): the characters from index `start` on.
slice(s, start) == SubSeq(s, start + 1, Len(s))

\* String.prototype.startsWith for a one-character prefix.
startsWith(s, c) == s # <<>> /\ s[1] = c

\* The index after the longest run of characters of `class` that begins at
\* index p (the greedy * of the regular expression).
RECURSIVE runEnd(_, _, _)
runEnd(s, p, class) ==
    IF p < Len(s) /\ s[p + 1] \in class THEN runEnd(s, p + 1, class) ELSE p

NoMatch == [found |-> FALSE]

\* /^([a-zA-Z_][a-zA-Z0-9_-]*)\s*:/m tried at index p.  The name and the
\* white space are runs of classes that exclude the character after them,
\* so backtracking finds no match the longest runs do not.
matchAt(s, p) ==
    IF /\ (p = 0 \/ s[p] \in LineTerminators)
       /\ p < Len(s)
       /\ s[p + 1] \in targetFirstChar
    THEN LET nameEnd == runEnd(s, p + 1, targetChar)
             spaceEnd == runEnd(s, nameEnd, WhiteSpace)
         IN  IF spaceEnd < Len(s) /\ s[spaceEnd + 1] = ":"
             THEN [found |-> TRUE, index |-> p,
                   name |-> SubSeq(s, p + 1, nameEnd),
                   lastIndex |-> spaceEnd + 1]
             ELSE NoMatch
    ELSE NoMatch

\* targetRegex.exec(content) with the g flag: the first match at or after
\* lastIndex, or null.
RECURSIVE exec(_, _)
exec(s, lastIndex) ==
    IF lastIndex > Len(s) THEN NoMatch
    ELSE IF matchAt(s, lastIndex).found THEN matchAt(s, lastIndex)
    ELSE exec(s, lastIndex + 1)

AND_SEPARATOR == <<" ", "&", "&", " ">>
MAKE_PREFIX == <<"m", "a", "k", "e", " ">>

\* for (const line of lines) { ... }: the recipe lines joined, up to the break.
RECURSIVE recipe(_, _)
recipe(lines, command) ==
    IF lines = <<>> THEN command
    ELSE IF startsWith(Head(lines), "\t")
    THEN recipe(Tail(lines),
                (IF command # <<>> THEN command \o AND_SEPARATOR ELSE command)
                    \o trim(Head(lines)))
    ELSE IF trim(Head(lines)) # <<>> /\ ~startsWith(Head(lines), "#")
    THEN command
    ELSE recipe(Tail(lines), command)

\* The ScriptInfo pushed for a match.
targetOf(content, match, packageName, packagePath) ==
    LET command == recipe(split(slice(content, match.lastIndex), "\n"), <<>>)
    IN  [name |-> match.name,
         command |-> IF command # <<>> THEN command ELSE MAKE_PREFIX \o match.name,
         source |-> "make",
         packageName |-> packageName,
         packagePath |-> packagePath]

\* while ((match = targetRegex.exec(content)) !== null) { ... }
RECURSIVE parseTargets(_, _, _, _, _, _)
parseTargets(content, lastIndex, seen, targets, packageName, packagePath) ==
    LET match == exec(content, lastIndex)
    IN  IF ~match.found THEN targets
        ELSE IF match.name \in seen
        THEN parseTargets(content, match.lastIndex, seen, targets,
                          packageName, packagePath)
        ELSE parseTargets(content, match.lastIndex, seen \cup {match.name},
                 Append(targets, targetOf(content, match, packageName, packagePath)),
                 packageName, packagePath)

\* parseMakefile on the text readFile returned.
parseMakefileContent(content, packageName, packagePath) ==
    parseTargets(content, 0, {}, <<>>, packageName, packagePath)

\* MAKEFILE_NAMES.includes(entry.name)
isMakefileName(name) == \E i \in 1..Len(MAKEFILE_NAMES) : MAKEFILE_NAMES[i] = name

\* for (const name of MAKEFILE_NAMES) if (existsSync(join(currentDir, name)))
firstMakefile(fs, dir, names) ==
    IF \E i \in 1..Len(names) : existsSync(fs, join(dir, names[i]))
    THEN Found(join(dir, names[CHOOSE i \in 1..Len(names) :
                   /\ existsSync(fs, join(dir, names[i]))
                   /\ \A k \in 1..(i - 1) : ~existsSync(fs, join(dir, names[k]))]))
    ELSE NotFound

\* findMakefile(startDir): while (currentDir !== '/') { ... }
RECURSIVE findMakefile(_, _)
findMakefile(fs, currentDir) ==
    IF currentDir = RootDir THEN NotFound
    ELSE IF firstMakefile(fs, currentDir, MAKEFILE_NAMES).found
    THEN firstMakefile(fs, currentDir, MAKEFILE_NAMES)
    ELSE findMakefile(fs, dirname(currentDir))

\* walk(dir) of findAllMakefiles: results in push order.
RECURSIVE walkMakefiles(_, _)
walkMakefiles(fs, entries) ==
    IF entries = <<>> THEN <<>>
    ELSE LET entry == Head(entries)
         IN  (IF entry.isDirectory
              THEN (IF isSkipped(entry.name) THEN <<>>
                    ELSE walkMakefiles(fs, readdir(fs, entry.path)))
              ELSE IF isMakefileName(entry.name) THEN <<entry.path>>
              ELSE <<>>)
             \o walkMakefiles(fs, Tail(entries))

\* findAllMakefiles(rootDir)
findAllMakefiles(fs, rootDir) == walkMakefiles(fs, readdir(fs, rootDir))

\* parseMakefile(makefilePath, monorepoRoot?): a file that cannot be read
\* gives [].  The label is computed as getPackageDisplayName of the manifests
\* is (the two functions have the same body).
parseMakefile(fs, makefilePath, monorepoRoot) ==
    LET file == fileAt(fs, makefilePath)
    IN  IF ~file.exists THEN <<>>
        ELSE parseMakefileContent(file.content,
                 IF monorepoRoot = Undefined THEN Undefined
                 ELSE Str(getPackageDisplayName(makefilePath, monorepoRoot.str)),
                 IF monorepoRoot = Undefined THEN Undefined
                 ELSE Str(makefilePath.dir))

\* for (const mkPath of makefilePaths) allTargets.push(...targets)
RECURSIVE parseAllMakefiles(_, _, _)
parseAllMakefiles(fs, makefilePaths, monorepoRoot) ==
    IF makefilePaths = <<>> THEN <<>>
    ELSE parseMakefile(fs, Head(makefilePaths), Str(monorepoRoot))
            \o parseAllMakefiles(fs, Tail(makefilePaths), monorepoRoot)

\* getMakefileTargets({ workspaces: false }): single makefile mode, all of
\* it inside try/catch.
getMakefileTargetsSingle(fs, store, now, cwd) ==
    LET makefilePath == findMakefile(fs, cwd)
        key == cacheKey("make:single", makefilePath.path)
        cached == getCachedScripts(store, fs, now, key, <<makefilePath.path>>)
        targets == parseMakefile(fs, makefilePath.path, Undefined)
    IN  IF ~makefilePath.found
        THEN Outcome(<<>>, <<>>, store, NotFound, <<>>, FALSE, <<>>)
        ELSE IF cached.threw
        THEN Outcome(<<>>, <<"Failed to read Makefile">>, store, NotFound,
                     <<makefilePath.path>>, FALSE, <<>>)
        ELSE IF cached.hit
        THEN Outcome(cached.scripts, <<>>, store, NotFound, <<makefilePath.path>>,
                     TRUE, <<>>)
        ELSE Outcome(targets, <<>>,
                     setCachedScripts(store, fs, now, key, targets, <<makefilePath.path>>),
                     NotFound, <<makefilePath.path>>, FALSE, <<makefilePath.path>>)

\* getMakefileTargets({ workspaces: true }) once the root is resolved.
getMakefileTargetsInRoot(fs, store, now, monorepoRoot) ==
    LET makefilePaths == findAllMakefiles(fs, monorepoRoot)
        key == cacheKey("make:workspaces", join(monorepoRoot, <<>>))
        cached == getCachedScripts(store, fs, now, key, makefilePaths)
        sorted == sortScripts(parseAllMakefiles(fs, makefilePaths, monorepoRoot))
    IN  IF findAllPackageJsonsThrows(fs, monorepoRoot)
        THEN Rejected(store, Found(monorepoRoot), <<>>, <<>>)
        ELSE IF makefilePaths = <<>>
        THEN Outcome(<<>>, <<>>, store, Found(monorepoRoot), <<>>, FALSE, <<>>)
        ELSE IF cached.threw
        THEN Rejected(store, Found(monorepoRoot), makefilePaths, <<>>)
        ELSE IF cached.hit
        THEN Outcome(cached.scripts, <<>>, store, Found(monorepoRoot),
                     makefilePaths, TRUE, <<>>)
        ELSE Outcome(sorted, <<>>,
                     setCachedScripts(store, fs, now, key, sorted, makefilePaths),
                     Found(monorepoRoot), makefilePaths, FALSE, makefilePaths)

\* getMakefileTargets(options)
getMakefileTargets(fs, store, now, cwd, workspaces) ==
    IF workspaces /\ findMonorepoRoot(fs, cwd).found
    THEN getMakefileTargetsInRoot(fs, store, now, findMonorepoRoot(fs, cwd).path)
    ELSE getMakefileTargetsSingle(fs, store, now, cwd)

(***************************************************************************)
(* Package files of the model                                              *)
(***************************************************************************)

ScriptA == [name |-> <<"a">>, command |-> <<"x">>]
ScriptB == [name |-> <<"b">>, command |-> <<"y">>]
ScriptBChanged == [name |-> <<"b">>, command |-> <<"z">>]
ScriptUpperB == [name |-> <<"B">>, command |-> <<"y">>]

\* { "scripts": { "b": "y", "a": "x" } }
PkgSingle == Manifest(FALSE, ScriptsObject(<<ScriptB, ScriptA>>))
\* The same names, one command edited.
PkgChanged == Manifest(FALSE, ScriptsObject(<<ScriptBChanged, ScriptA>>))
\* { "workspaces": ["*"], "scripts": { "b": "y", "a": "x" } }
PkgWorkspaces == Manifest(TRUE, ScriptsObject(<<ScriptB, ScriptA>>))
\* A member package: { "scripts": { "b": "y", "B": "y" } }
PkgMember == Manifest(FALSE, ScriptsObject(<<ScriptB, ScriptUpperB>>))
\* { "name": "x" }
PkgNoScripts == Manifest(FALSE, ScriptsAbsent)

\* The time at which the files of the initial tree were written.
StartTime == 1000

NoDir == Dir(NoFile, FALSE)

\* The trees the discovery starts from: / and /w/node_modules may hold a
\* package.json that declares workspaces, /w any kind of package.json and a
\* pnpm-workspace.yaml, and /w/a and /w/!x are there together or not at all.
InitialTrees ==
    { [d \in Dirs |->
          IF d = RootDir THEN Dir(r, FALSE)
          ELSE IF d = DirW THEN Dir(w, y)
          ELSE IF d = DirA THEN Dir(a, FALSE)
          ELSE IF d = DirX
          THEN Dir(IF a.exists THEN File(PkgSingle, StartTime) ELSE NoFile, FALSE)
          ELSE IF d = DirN THEN Dir(n, FALSE)
          ELSE NoDir] :
        r \in {NoFile, File(PkgWorkspaces, StartTime)},
        w \in {NoFile, File(PkgSingle, StartTime), File(PkgWorkspaces, StartTime),
               File(InvalidJson, StartTime)},
        y \in BOOLEAN,
        a \in {NoFile, File(PkgMember, StartTime)},
        n \in {NoFile, File(PkgWorkspaces, StartTime)} }

\* process.cwd() of the calls.
CallDirs == {RootDir, DirW, DirA, DirN}

\* The directories whose package.json is edited, and what is written.
WrittenDirs == {DirW}
WrittenContents == {PkgChanged, PkgNoScripts}

\* The steps of the clock: a millisecond, and more than the cache's lifetime.
ClockSteps == {1, CACHE_TTL_MS + 1}

MaxCalls == 2
MaxWrites == 1
MaxTicks == 1

(***************************************************************************)
(* The matcher's specification                                             *)
(***************************************************************************)

Idle == [op |-> "none"]

\* The runner is not started, nothing is memoised and no invocation is in
\* progress.
UiIdle ==
    [pc |-> "idle", cwd |-> RootDir, scripts |-> <<>>, enabled |-> {},
     selectionOrder |-> <<>>, toggles |-> 0, index |-> 0, selected |-> <<>>,
     answer |-> "none", at |-> 1, children |-> <<>>, launched |-> <<>>,
     ended |-> "no"]
MemoEmpty == [cachedDir |-> Undefined, cachedPM |-> Undefined]
NoJobs == <<>>
MkIdle == [pc |-> "idle", lines |-> <<>>, content |-> <<>>, targets |-> <<>>]

AuxQuiet ==
    /\ ui = UiIdle
    /\ pmMemo = MemoEmpty
    /\ jobs = NoJobs
    /\ mk = MkIdle

EnvQuiet ==
    /\ disk = [d \in Dirs |-> NoDir]
    /\ cacheFile = StoreAbsent
    /\ clock = StartTime
    /\ out = Idle
    /\ last = "init"
    /\ calls = 0
    /\ writes = 0
    /\ ticks = 0
    /\ AuxQuiet

SgInit ==
    /\ sgPc = "idle"
    /\ sgResult = <<>>
    /\ \/ /\ sgChoices \in UNION {[1..k -> ChoicePool] : k \in 0..MaxChoices}
          /\ sgInput \in {Str(s) : s \in StringsUpTo(InputChars, MaxInputLen)}
                            \cup {Undefined}
       \/ /\ sgChoices = SampleChoices
          /\ sgInput \in {Str(s) : s \in SampleInputs}
    /\ EnvQuiet

\* One call of suggestScripts(choices, input).
Suggest ==
    /\ sgPc = "idle"
    /\ sgResult' = suggestScripts(sgChoices, sgInput)
    /\ sgPc' = "done"
    /\ UNCHANGED <<sgChoices, sgInput>>
    /\ UNCHANGED envVars
    /\ UNCHANGED auxVars

SgNext == Suggest

SpecSuggest == SgInit /\ [][SgNext]_vars

(***************************************************************************)
(* Discovery: calls of getScripts while the files change and time passes   *)
(***************************************************************************)

SgQuiet ==
    /\ sgChoices = <<>>
    /\ sgInput = Undefined
    /\ sgResult = <<>>
    /\ sgPc = "idle"

Init ==
    /\ SgQuiet
    /\ disk \in InitialTrees
    /\ cacheFile = StoreAbsent
    /\ clock = StartTime
    /\ out = Idle
    /\ last = "init"
    /\ calls = 0
    /\ writes = 0
    /\ ticks = 0
    /\ AuxQuiet

\* One call of getScripts({ workspaces }) with process.cwd() = cwd.
GetScripts(cwd, workspaces) ==
    /\ calls < MaxCalls
    /\ LET outcome == getScripts(disk, cacheFile, clock, cwd, workspaces)
       IN  /\ out' = [op |-> "getScripts", cwd |-> cwd, workspaces |-> workspaces,
                      result |-> outcome.result, log |-> outcome.log,
                      rejected |-> outcome.rejected,
                      root |-> outcome.root, files |-> outcome.files,
                      cached |-> outcome.cached, reads |-> outcome.reads,
                      time |-> clock, edits |-> writes]
           /\ cacheFile' = outcome.store
    /\ calls' = calls + 1
    /\ last' = "call"
    /\ UNCHANGED <<disk, clock, writes, ticks>>
    /\ UNCHANGED sgVars
    /\ UNCHANGED auxVars

\* Somebody writes dir/package.json; its modification time is the time of
\* the write.
WriteManifest(dir, content) ==
    /\ writes < MaxWrites
    /\ disk' = [disk EXCEPT ![dir].pkg = File(content, clock)]
    /\ writes' = writes + 1
    /\ last' = "write"
    /\ UNCHANGED <<cacheFile, clock, out, calls, ticks>>
    /\ UNCHANGED sgVars
    /\ UNCHANGED auxVars

\* Somebody deletes dir/package.json.
RemoveManifest(dir) ==
    /\ writes < MaxWrites
    /\ disk[dir].pkg.exists
    /\ disk' = [disk EXCEPT ![dir].pkg = NoFile]
    /\ writes' = writes + 1
    /\ last' = "write"
    /\ UNCHANGED <<cacheFile, clock, out, calls, ticks>>
    /\ UNCHANGED sgVars
    /\ UNCHANGED auxVars

\* Time passes.
Tick(step) ==
    /\ ticks < MaxTicks
    /\ clock' = clock + step
    /\ ticks' = ticks + 1
    /\ last' = "tick"
    /\ UNCHANGED <<disk, cacheFile, out, calls, writes>>
    /\ UNCHANGED sgVars
    /\ UNCHANGED auxVars

Next ==
    \/ \E cwd \in CallDirs, workspaces \in BOOLEAN : GetScripts(cwd, workspaces)
    \/ \E dir \in WrittenDirs, content \in WrittenContents : WriteManifest(dir, content)
    \/ \E dir \in WrittenDirs : RemoveManifest(dir)
    \/ \E step \in ClockSteps : Tick(step)

Spec == Init /\ [][Next]_vars

(***************************************************************************)
(* The cache: calls of setCachedScripts and getCachedScripts while the     *)
(* files change and time passes                                            *)
(***************************************************************************)

\* The cache keys and the lists of definition files of the calls.
CacheKeys ==
    {cacheKey("single", join(DirW, PACKAGE_JSON)), cacheKey("workspaces", join(DirW, <<>>))}

CacheFileLists ==
    { <<>>,
      <<join(DirW, PACKAGE_JSON)>>,
      <<join(DirA, PACKAGE_JSON)>>,
      <<join(DirW, PACKAGE_JSON), join(DirA, PACKAGE_JSON)>>,
      <<join(DirA, PACKAGE_JSON), join(DirW, PACKAGE_JSON)>> }

\* The lists stored.
CacheScriptLists ==
    { <<ScriptInfo(<<"a">>, <<"x">>, Undefined, Undefined)>>,
      <<ScriptInfo(<<"a">>, <<"x">>, Str(ROOT_LABEL), Str(DirW)),
        ScriptInfo(<<"b">>, <<"y">>, Str(<<"a">>), Str(DirA))>> }

\* The trees of the cache's specification: /w/package.json is missing, or
\* carries the epoch as its modification time, or the time it was written.
CacheTrees ==
    { [d \in Dirs |->
          IF d = DirW THEN Dir(w, FALSE)
          ELSE IF d = DirA THEN Dir(a, FALSE)
          ELSE NoDir] :
        w \in {NoFile, File(PkgSingle, 0), File(PkgSingle, StartTime)},
        a \in {NoFile, File(PkgMember, StartTime)} }

\* A millisecond, the cache's lifetime to the millisecond, and one more.
CacheClockSteps == {1, CACHE_TTL_MS, CACHE_TTL_MS + 1}

CacheInit ==
    /\ SgQuiet
    /\ disk \in CacheTrees
    /\ cacheFile \in {StoreAbsent, StoreInvalid}
    /\ clock = StartTime
    /\ out = Idle
    /\ last = "init"
    /\ calls = 0
    /\ writes = 0
    /\ ticks = 0
    /\ AuxQuiet

\* One call of setCachedScripts(cacheKey, scripts, packageJsonPaths).
SetCachedScripts(key, scripts, packageJsonPaths) ==
    /\ calls < MaxCalls
    /\ cacheFile' = setCachedScripts(cacheFile, disk, clock, key, scripts, packageJsonPaths)
    /\ out' = [op |-> "setCachedScripts", key |-> key, scripts |-> scripts,
               files |-> packageJsonPaths, threw |-> setCachedScriptsThrows(cacheFile)]
    /\ calls' = calls + 1
    /\ last' = "call"
    /\ UNCHANGED <<disk, clock, writes, ticks>>
    /\ UNCHANGED sgVars
    /\ UNCHANGED auxVars

\* One call of getCachedScripts(cacheKey, packageJsonPaths).
GetCachedScripts(key, packageJsonPaths) ==
    /\ calls < MaxCalls
    /\ out' = [op |-> "getCachedScripts", key |-> key, files |-> packageJsonPaths,
               answer |-> getCachedScripts(cacheFile, disk, clock, key, packageJsonPaths)]
    /\ calls' = calls + 1
    /\ last' = "call"
    /\ UNCHANGED <<disk, cacheFile, clock, writes, ticks>>
    /\ UNCHANGED sgVars
    /\ UNCHANGED auxVars

CacheNext ==
    \/ \E key \in CacheKeys, scripts \in CacheScriptLists, paths \in CacheFileLists :
          SetCachedScripts(key, scripts, paths)
    \/ \E key \in CacheKeys, paths \in CacheFileLists : GetCachedScripts(key, paths)
    \/ \E dir \in WrittenDirs, content \in WrittenContents : WriteManifest(dir, content)
    \/ \E dir \in WrittenDirs : RemoveManifest(dir)
    \/ \E step \in CacheClockSteps : Tick(step)

SpecCache == CacheInit /\ [][CacheNext]_vars

(***************************************************************************)
(* The cache when it is full                                               *)
(***************************************************************************)

\* The key of the i-th of the projects whose records fill the cache:
\* single:/p/<i in two digits>/package.json.
FillerKey(i) ==
    cacheKey("single",
             join(<< <<"p">>, <<Digits[(i \div 10) + 1], Digits[(i % 10) + 1]>> >>,
                  PACKAGE_JSON))

\* The times at which the i-th filler record of n was stored: one a
\* millisecond after the other, the later ones first, all at once, or all
\* after every call of the model.
FillerTimes == {"rising", "falling", "equal", "ahead"}

FillerTimestamp(pattern, i, n) ==
    IF pattern = "rising" THEN i
    ELSE IF pattern = "falling" THEN n + 1 - i
    ELSE IF pattern = "equal" THEN StartTime
    ELSE StartTime + CACHE_TTL_MS + i + 1

\* A cache file of n records.
FilledStore(n, pattern) ==
    StoreData([k \in {FillerKey(i) : i \in 1..n} |->
        LET i == CHOOSE j \in 1..n : FillerKey(j) = k
        IN  [scripts |-> <<>>, mtimes |-> EmptyMap,
             timestamp |-> FillerTimestamp(pattern, i, n)]])

\* The keys of the calls: two new ones and two that are in the full cache.
EvictKeys == CacheKeys \cup {FillerKey(1), FillerKey(MAX_CACHE_ENTRIES - 1)}

EvictInit ==
    /\ SgQuiet
    /\ disk \in CacheTrees
    /\ cacheFile \in {FilledStore(n, pattern) :
                          n \in {MAX_CACHE_ENTRIES - 1, MAX_CACHE_ENTRIES},
                          pattern \in FillerTimes}
    /\ clock = StartTime
    /\ out = Idle
    /\ last = "init"
    /\ calls = 0
    /\ writes = 0
    /\ ticks = 0
    /\ AuxQuiet

EvictNext ==
    \/ \E key \in EvictKeys, scripts \in CacheScriptLists :
          SetCachedScripts(key, scripts, <<join(DirW, PACKAGE_JSON)>>)
    \/ \E step \in CacheClockSteps : Tick(step)

SpecEvict == EvictInit /\ [][EvictNext]_vars

(***************************************************************************)
(* Invocations that run at the same time                                   *)
(***************************************************************************)

MaxJobs == 2

JobsQuiet ==
    /\ UNCHANGED <<out, last, calls, ui, pmMemo, mk>>
    /\ UNCHANGED sgVars

\* getScripts({ workspaces }) is called with process.cwd() = cwd.
StartGetScripts(cwd, workspaces) ==
    /\ Len(jobs) < MaxJobs
    /\ jobs' = Append(jobs, [NewJob("getScripts", writes) EXCEPT
                                !.pc = "lookup", !.cwd = cwd,
                                !.workspaces = workspaces])
    /\ UNCHANGED <<disk, cacheFile, clock, writes, ticks>>
    /\ JobsQuiet

\* setCachedScripts(key, scripts, packageJsonPaths) is called.
StartSetCachedScripts(key, scripts, packageJsonPaths) ==
    /\ Len(jobs) < MaxJobs
    /\ jobs' = Append(jobs, [NewJob("setCachedScripts", writes) EXCEPT
                                !.pc = "read", !.key = key, !.scripts = scripts,
                                !.paths = packageJsonPaths])
    /\ UNCHANGED <<disk, cacheFile, clock, writes, ticks>>
    /\ JobsQuiet

\* The j-th invocation resolves its definition files and asks the cache.
JobLookup(j) ==
    /\ j \in 1..Len(jobs)
    /\ jobs[j].pc = "lookup"
    /\ jobs' = [jobs EXCEPT ![j] =
                  afterLookup(@, lookup(disk, cacheFile, clock, @.cwd, @.workspaces))]
    /\ UNCHANGED <<disk, cacheFile, clock, writes, ticks>>
    /\ JobsQuiet

\* The j-th invocation reads and parses its definition files.
JobParse(j) ==
    /\ j \in 1..Len(jobs)
    /\ jobs[j].pc = "parse"
    /\ jobs' = [jobs EXCEPT ![j] = afterParse(@, parseFor(disk, @.paths, @.root))]
    /\ UNCHANGED <<disk, cacheFile, clock, writes, ticks>>
    /\ JobsQuiet

\* setCachedScripts of the j-th invocation: `await readCache()`.
JobReadCache(j) ==
    /\ j \in 1..Len(jobs)
    /\ jobs[j].pc = "read"
    /\ jobs' = [jobs EXCEPT ![j] =
                  IF hasEntries(readCache(cacheFile))
                  THEN [@ EXCEPT !.pc = "stat", !.cache = readCache(cacheFile)]
                  ELSE [@ EXCEPT !.pc = "done", !.result = <<>>]]
    /\ UNCHANGED <<disk, cacheFile, clock, writes, ticks>>
    /\ JobsQuiet

\* setCachedScripts of the j-th invocation: `await getMtimes(packageJsonPaths)`.
JobGetMtimes(j) ==
    /\ j \in 1..Len(jobs)
    /\ jobs[j].pc = "stat"
    /\ jobs' = [jobs EXCEPT ![j] =
                  [@ EXCEPT !.pc = "write", !.mtimes = getMtimes(disk, jobs[j].paths)]]
    /\ UNCHANGED <<disk, cacheFile, clock, writes, ticks>>
    /\ JobsQuiet

\* setCachedScripts of the j-th invocation: the record is put into the cache
\* it read, and `await writeCache(cache)`.
JobWrite(j) ==
    /\ j \in 1..Len(jobs)
    /\ jobs[j].pc = "write"
    /\ cacheFile' = writeCache(cacheFile,
                               putRecord(jobs[j].cache, jobs[j].key, jobs[j].scripts,
                                         jobs[j].mtimes, clock))
    /\ jobs' = [jobs EXCEPT ![j] = [@ EXCEPT !.pc = "done"]]
    /\ UNCHANGED <<disk, clock, writes, ticks>>
    /\ JobsQuiet

\* Somebody rewrites dir/package.json, and its modification time changes.
ModifyManifest(dir, content) ==
    /\ disk[dir].pkg.exists
    /\ disk[dir].pkg.mtime # clock
    /\ WriteManifest(dir, content)

\* The trees of the invocations: /w is one package, or declares workspaces
\* with the member /w/a.
RaceTrees ==
    { [d \in Dirs |-> IF d = DirW THEN Dir(File(PkgSingle, StartTime), FALSE) ELSE NoDir],
      [d \in Dirs |->
          IF d = DirW THEN Dir(File(PkgWorkspaces, StartTime), FALSE)
          ELSE IF d = DirA THEN Dir(File(PkgMember, StartTime), FALSE)
          ELSE NoDir] }

RaceInit ==
    /\ SgQuiet
    /\ disk \in RaceTrees
    /\ cacheFile = StoreAbsent
    /\ clock = StartTime
    /\ out = Idle
    /\ last = "init"
    /\ calls = 0
    /\ writes = 0
    /\ ticks = 0
    /\ AuxQuiet

RaceNext ==
    \/ \E workspaces \in BOOLEAN : StartGetScripts(DirW, workspaces)
    \/ \E j \in 1..MaxJobs : JobLookup(j)
    \/ \E j \in 1..MaxJobs : JobParse(j)
    \/ \E j \in 1..MaxJobs : JobReadCache(j)
    \/ \E j \in 1..MaxJobs : JobGetMtimes(j)
    \/ \E j \in 1..MaxJobs : JobWrite(j)
    \/ \E content \in WrittenContents : ModifyManifest(DirW, content)
    \/ \E step \in ClockSteps : Tick(step)

SpecRace == RaceInit /\ [][RaceNext]_vars

\* Invocations of setCachedScripts and the files they stat: /w/package.json
\* is there, /w/a/package.json may be.
WritersTrees ==
    {tree \in CacheTrees : tree[DirW].pkg.exists /\ tree[DirW].pkg.mtime = StartTime}

WritersFileLists ==
    { <<join(DirW, PACKAGE_JSON)>>,
      <<join(DirW, PACKAGE_JSON), join(DirA, PACKAGE_JSON)>> }

WritersInit ==
    /\ SgQuiet
    /\ disk \in WritersTrees
    /\ cacheFile = StoreAbsent
    /\ clock = StartTime
    /\ out = Idle
    /\ last = "init"
    /\ calls = 0
    /\ writes = 0
    /\ ticks = 0
    /\ AuxQuiet

WritersNext ==
    \/ \E key \in CacheKeys, scripts \in CacheScriptLists, paths \in WritersFileLists :
          StartSetCachedScripts(key, scripts, paths)
    \/ \E j \in 1..MaxJobs : JobReadCache(j)
    \/ \E j \in 1..MaxJobs : JobGetMtimes(j)
    \/ \E j \in 1..MaxJobs : JobWrite(j)
    \/ \E content \in WrittenContents : ModifyManifest(DirW, content)
    \/ \E step \in ClockSteps : Tick(step)

SpecWriters == WritersInit /\ [][WritersNext]_vars

(***************************************************************************)
(* Discovery with a cache file that is not what the program wrote          *)
(***************************************************************************)

\* Cache files the program finds: text that is not JSON, JSON without an
\* entries property, and a file it may neither read nor write.
FaultyStores == {StoreInvalid, StoreNoEntries, StoreLocked}

FaultInit ==
    /\ SgQuiet
    /\ disk \in InitialTrees
    /\ cacheFile \in FaultyStores
    /\ clock = StartTime
    /\ out = Idle
    /\ last = "init"
    /\ calls = 0
    /\ writes = 0
    /\ ticks = 0
    /\ AuxQuiet

FaultNext ==
    \E cwd \in CallDirs, workspaces \in BOOLEAN : GetScripts(cwd, workspaces)

SpecFault == FaultInit /\ [][FaultNext]_vars

(***************************************************************************)
(* Discovery over a tree with a directory that cannot be listed            *)
(***************************************************************************)

\* The directories that may be unreadable.
UnreadableDirs == {DirA, DirC, DirN}

UnreadableTrees ==
    {[tree EXCEPT ![d].unreadable = TRUE] : tree \in InitialTrees, d \in UnreadableDirs}

UnreadableInit ==
    /\ SgQuiet
    /\ disk \in UnreadableTrees
    /\ cacheFile = StoreAbsent
    /\ clock = StartTime
    /\ out = Idle
    /\ last = "init"
    /\ calls = 0
    /\ writes = 0
    /\ ticks = 0
    /\ AuxQuiet

UnreadableNext ==
    \E cwd \in CallDirs, workspaces \in BOOLEAN : GetScripts(cwd, workspaces)

SpecUnreadable == UnreadableInit /\ [][UnreadableNext]_vars

(***************************************************************************)
(* The interactive runner: the prompt, the confirmation and the child      *)
(* processes                                                               *)
(***************************************************************************)

Lock(dir, files) == [dir EXCEPT !.locks = files]

\* /w declares workspaces and /w/a repeats one of its names.
TreeRepeat ==
    [d \in Dirs |->
        IF d = DirW THEN Lock(Dir(File(PkgWorkspaces, StartTime), FALSE),
                              {"yarn.lock", "package-lock.json"})
        ELSE IF d = DirA THEN Lock(Dir(File(PkgMember, StartTime), FALSE), {"pnpm-lock.yaml"})
        ELSE NoDir]

\* /w declares workspaces; /w/a has the script "b:c" and /w/a:b the
\* script "c".
TreeColon ==
    [d \in Dirs |->
        IF d = DirW THEN Dir(File(Manifest(TRUE, ScriptsObject(<<ScriptA>>)), StartTime), FALSE)
        ELSE IF d = DirA
        THEN Dir(File(Manifest(FALSE, ScriptsObject(
                 <<[name |-> <<"b", ":", "c">>, command |-> <<"x">>]>>)), StartTime), FALSE)
        ELSE IF d = DirC
        THEN Lock(Dir(File(Manifest(FALSE, ScriptsObject(
                 <<[name |-> <<"c">>, command |-> <<"y">>]>>)), StartTime), FALSE),
                  {"bun.lock"})
        ELSE NoDir]

\* One package, in /w.
TreeSingle ==
    [d \in Dirs |-> IF d = DirW THEN Dir(File(PkgSingle, StartTime), FALSE) ELSE NoDir]

\* No package.json at all.
TreeEmpty == [d \in Dirs |-> NoDir]

RunnerTrees == {TreeRepeat, TreeColon, TreeSingle, TreeEmpty}

\* process.cwd() of the runner.
RunnerDirs == {DirW, DirA}

\* How a child process may end, and how the 'close' that follows a failed
\* spawn reports it.
ExitStatuses == {Exited(0), Exited(1), Signalled}
SpawnFailure == Exited(-2)

\* The answers to the confirmation: yes, no, and the prompt aborted.
ConfirmAnswers == {"yes", "no", "abort"}

MaxToggles == 3

\* No tree of the runner has more scripts than this.
MaxShown == 4

RunnerInit ==
    /\ SgQuiet
    /\ disk \in RunnerTrees
    /\ cacheFile = StoreAbsent
    /\ clock = StartTime
    /\ out = Idle
    /\ last = "init"
    /\ calls = 0
    /\ writes = 0
    /\ ticks = 0
    /\ AuxQuiet

RunnerQuiet == UNCHANGED <<disk, clock, out, last, calls, writes, ticks, jobs, mk>> /\ UNCHANGED sgVars

\* interactiveScriptRunner({ workspaces }) up to its prompt, with
\* process.cwd() = cwd.
RunnerStart(cwd, workspaces) ==
    /\ ui.pc = "idle"
    /\ LET outcome == getScripts(disk, cacheFile, clock, cwd, workspaces)
       IN  /\ cacheFile' = outcome.store
           /\ ui' = IF outcome.rejected
                    THEN [ui EXCEPT !.pc = "returned", !.ended = "rejected", !.cwd = cwd]
                    ELSE IF Len(outcome.result) = 0
                    THEN [ui EXCEPT !.pc = "returned", !.ended = "no scripts", !.cwd = cwd]
                    ELSE [ui EXCEPT !.pc = "prompt", !.cwd = cwd,
                                    !.scripts = outcome.result]
    /\ UNCHANGED pmMemo
    /\ RunnerQuiet

\* The user presses space on the i-th choice: toggle(choice).
Toggle(i) ==
    /\ ui.pc = "prompt"
    /\ ui.toggles < MaxToggles
    /\ i \in 1..Len(ui.scripts)
    /\ ui' = [ui EXCEPT
                !.enabled = IF i \in @ THEN @ \ {i} ELSE @ \cup {i},
                !.selectionOrder = toggleOrder(@, i \in ui.enabled,
                                               choicesOf(ui.scripts)[i].name),
                !.toggles = @ + 1]
    /\ UNCHANGED <<cacheFile, pmMemo>>
    /\ RunnerQuiet

\* The user presses enter with the focus on the index-th choice.
Submit(index) ==
    /\ ui.pc = "prompt"
    /\ index \in 0..Len(ui.scripts)
    /\ LET after == afterPrompt(ui, index, pmMemo, disk)
       IN  ui' = after.ui /\ pmMemo' = after.memo
    /\ UNCHANGED cacheFile
    /\ RunnerQuiet

\* The user aborts the prompt: prompt.run() rejects and the catch returns.
AbortPrompt ==
    /\ ui.pc = "prompt"
    /\ ui' = [ui EXCEPT !.pc = "returned", !.ended = "aborted"]
    /\ UNCHANGED <<cacheFile, pmMemo>>
    /\ RunnerQuiet

\* The user answers the confirmation.
AnswerConfirm(answer) ==
    /\ ui.pc = "confirm"
    /\ LET after == afterConfirm([ui EXCEPT !.answer = answer], answer, pmMemo, disk)
       IN  ui' = after.ui /\ pmMemo' = after.memo
    /\ UNCHANGED cacheFile
    /\ RunnerQuiet

\* The k-th child process ends: its 'close' event.
ChildClose(k, status) ==
    /\ k \in 1..Len(ui.children)
    /\ ui.children[k].state = "spawned"
    /\ LET after == afterEvent(ui, k, onClose(ui.children[k], status), pmMemo, disk)
       IN  ui' = after.ui /\ pmMemo' = after.memo
    /\ UNCHANGED cacheFile
    /\ RunnerQuiet

\* The k-th child could not be spawned: its 'error' event.
ChildError(k) ==
    /\ k \in 1..Len(ui.children)
    /\ ui.children[k].state = "spawned"
    /\ LET after == afterEvent(ui, k, onError(ui.children[k]), pmMemo, disk)
       IN  ui' = after.ui /\ pmMemo' = after.memo
    /\ UNCHANGED cacheFile
    /\ RunnerQuiet

\* The 'close' event that follows the 'error' event of the k-th child.
ChildCloseAfterError(k) ==
    /\ k \in 1..Len(ui.children)
    /\ ui.children[k].state = "failed"
    /\ LET after == afterEvent(ui, k, onClose(ui.children[k], SpawnFailure), pmMemo, disk)
       IN  ui' = after.ui /\ pmMemo' = after.memo
    /\ UNCHANGED cacheFile
    /\ RunnerQuiet

MaxChildren == 3

RunnerNext ==
    \/ \E cwd \in RunnerDirs, workspaces \in BOOLEAN : RunnerStart(cwd, workspaces)
    \/ \E i \in 1..MaxShown : Toggle(i)
    \/ \E index \in 0..MaxShown : Submit(index)
    \/ AbortPrompt
    \/ \E answer \in ConfirmAnswers : AnswerConfirm(answer)
    \/ \E k \in 1..MaxChildren, status \in ExitStatuses : ChildClose(k, status)
    \/ \E k \in 1..MaxChildren : ChildError(k)
    \/ \E k \in 1..MaxChildren : ChildCloseAfterError(k)

SpecRunner == RunnerInit /\ [][RunnerNext]_vars

(***************************************************************************)
(* runScript called for any source                                         *)
(***************************************************************************)

\* The names, the working directories and the sources of the calls.
RunNames == {<<"a">>, <<"b", ":", "c">>}
RunCwds == {Undefined, Str(DirA), Str(DirC)}
RunSources == {"npm", "make"}

MaxRuns == 2

\* One call of runScript(scriptName, cwd, source) with process.cwd() = /w,
\* up to the return of its promise.
RunScript(scriptName, cwd, source) ==
    /\ Len(ui.children) < MaxRuns
    /\ LET run == runScript(pmMemo, disk, DirW, scriptName, cwd, source)
       IN  /\ ui' = [ui EXCEPT !.children = Append(@, run.child),
                               !.launched = Append(@, scriptName)]
           /\ pmMemo' = run.memo
    /\ out' = [op |-> "runScript", scriptName |-> scriptName, cwd |-> cwd,
               source |-> source, memo |-> pmMemo]
    /\ UNCHANGED <<disk, cacheFile, clock, last, calls, writes, ticks, jobs, mk>>
    /\ UNCHANGED sgVars

RunScriptInit ==
    /\ RunnerInit
    /\ disk \in {TreeRepeat, TreeColon}

RunScriptNext ==
    \/ \E scriptName \in RunNames, cwd \in RunCwds, source \in RunSources :
          RunScript(scriptName, cwd, source)
    \/ \E k \in 1..MaxChildren, status \in ExitStatuses : ChildClose(k, status)
    \/ \E k \in 1..MaxChildren : ChildError(k)
    \/ \E k \in 1..MaxChildren : ChildCloseAfterError(k)

SpecRunScript == RunScriptInit /\ [][RunScriptNext]_vars

(***************************************************************************)
(* Properties of the matcher                                               *)
(***************************************************************************)

\* The input after `(input || '').toLowerCase()`.
SgInputLower ==
    IF sgInput = Undefined THEN <<>> ELSE toLowerCase(sgInput.str)

\* The terms of an input: its maximal runs of characters other than the
\* space that hold at least one character that is not white space.
TermsOfInput(in) ==
    { SubSeq(in, i, j) : <<i, j>> \in
        { p \in (1..Len(in)) \X (1..Len(in)) :
            /\ p[1] <= p[2]
            /\ \A k \in p[1]..p[2] : in[k] # " "
            /\ p[1] = 1 \/ in[p[1] - 1] = " "
            /\ p[2] = Len(in) \/ in[p[2] + 1] = " "
            /\ \E k \in p[1]..p[2] : in[k] \notin WhiteSpace } }

\* A candidate is wanted: its lowercased name is the input, or every term is
\* a substring of its lowercased name or of its lowercased command.
WantedChoice(c, in) ==
    \/ toLowerCase(c.name) = in
    \/ \A t \in TermsOfInput(in) :
          \/ includes(toLowerCase(c.name), t)
          \/ includes(toLowerCase(c.command), t)

\* C1: for an input that is not empty after lowercasing, the result is the
\* candidates whose lowercased name equals the lowercased input or whose
\* lowercased name or command holds every term of the input (each term in
\* either field), in the order of the candidate list; 'test watch' over
\* {test, test:watch, build} yields test:watch alone and an input no candidate
\* matches yields the empty list.
Thm_C1_IncludedIffExactOrAllTerms ==
    (sgPc = "done" /\ SgInputLower # <<>>) =>
        /\ sgResult = SelectSeq(sgChoices, LAMBDA c : WantedChoice(c, SgInputLower))
        /\ (sgChoices = SampleChoices
               /\ sgInput = Str(<<"t","e","s","t"," ","w","a","t","c","h">>))
              => sgResult = <<TestWatchChoice>>
        /\ (sgChoices = SampleChoices /\ sgInput = Str(<<"n","o","n","e">>))
              => sgResult = <<>>

\* Reached: 'test watch' over the test candidates has returned test:watch.
Wit_C1_TestWatch ==
    /\ sgPc = "done"
    /\ sgChoices = SampleChoices
    /\ sgInput = Str(<<"t","e","s","t"," ","w","a","t","c","h">>)
    /\ sgResult = <<TestWatchChoice>>

\* C2: an input that is undefined, empty or made of spaces only returns every
\* candidate, unchanged and in the original order.
Thm_C2_BlankInputReturnsAll ==
    (/\ sgPc = "done"
     /\ \/ sgInput = Undefined
        \/ \A i \in 1..Len(sgInput.str) : sgInput.str[i] = " ")
        => sgResult = sgChoices

\* Reached: an input of two spaces has returned both of two candidates.
Wit_C2_SpacesReturnAll ==
    /\ sgPc = "done"
    /\ sgInput = Str(<<" ", " ">>)
    /\ Len(sgChoices) = 2
    /\ sgResult = sgChoices

\* C3: every candidate whose name equals the input, case-insensitively, is in
\* the result.
Thm_C3_ExactNameIncluded ==
    (sgPc = "done" /\ sgInput # Undefined) =>
        \A i \in 1..Len(sgChoices) :
            toLowerCase(sgChoices[i].name) = toLowerCase(sgInput.str)
                => sgChoices[i] \in Range(sgResult)

\* Reached: 'BUILD' has returned the candidate named build and no other.
Wit_C3_UpperCaseExact ==
    /\ sgPc = "done"
    /\ sgChoices = SampleChoices
    /\ sgInput = Str(<<"B","U","I","L","D">>)
    /\ sgResult = <<BuildChoice>>

(***************************************************************************)
(* Properties of discovery                                                 *)
(***************************************************************************)

\* The state right after a call of getScripts: the files are as they were
\* during the call.
AfterGetScripts == last = "call" /\ out.op = "getScripts"

\* A step that is a call of getScripts.
IsGetScriptsStep == calls' = calls + 1 /\ out'.op = "getScripts"

\* dir, its parent, ..., "/".
RECURSIVE PathToRoot(_)
PathToRoot(dir) ==
    IF dir = RootDir THEN <<RootDir>> ELSE <<dir>> \o PathToRoot(dirname(dir))

HasManifest(tree, dir) == tree[dir].pkg.exists

\* The scripts a package.json declares, in the order of the file; <<>> when
\* it declares none.
DeclaredScripts(tree, dir) ==
    IF /\ tree[dir].pkg.exists
       /\ tree[dir].pkg.content.json = "object"
       /\ tree[dir].pkg.content.scripts.kind = "object"
    THEN tree[dir].pkg.content.scripts.entries
    ELSE <<>>

\* The list has one task per declared script, with its name and its command.
TasksAreDeclared(tasks, entries) ==
    /\ Len(tasks) = Len(entries)
    /\ \A i \in 1..Len(entries) :
          /\ tasks[i].name = entries[i].name
          /\ tasks[i].command = entries[i].command

\* The cache file holds, under key, a record at most 24 hours old whose
\* recorded file is path alone, with the modification time path has now.
HasCurrentRecord(cache, tree, time, key, path) ==
    /\ cache.kind = "data"
    /\ key \in DOMAIN cache.entries
    /\ time - cache.entries[key].timestamp <= CACHE_TTL_MS
    /\ DOMAIN cache.entries[key].mtimes = {path}
    /\ cache.entries[key].mtimes[path] = tree[path.dir].pkg.mtime

\* C4 (amended): in single-project mode, when the manifest file discovery
\* resolves to declares N named scripts, getScripts returns exactly N tasks,
\* one per declared name, each with the literal command of that name in the
\* file as it is at the time of the call, unless the cache holds a record for
\* that file, at most 24 hours old, carrying the file's current modification
\* time; then it returns the list of that record.
Thm_C4_SingleTasksAreTheFileOrItsRecord ==
    [][(/\ IsGetScriptsStep
        /\ ~out'.workspaces
        /\ findPackageJson(disk, out'.cwd).found
        /\ DeclaredScripts(disk, findPackageJson(disk, out'.cwd).path.dir) # <<>>)
       => LET path == findPackageJson(disk, out'.cwd).path
              key == cacheKey("single", path)
          IN  IF HasCurrentRecord(cacheFile, disk, clock, key, path)
              THEN out'.result = cacheFile.entries[key].scripts
              ELSE TasksAreDeclared(out'.result, DeclaredScripts(disk, path.dir))]_vars

\* Reached: a call in single-project mode has returned the command "y" for
\* script b from the cache's record while the file, edited in the millisecond
\* it was first read in, says "z".
Wit_C4_RecordAnswersForEditedFile ==
    /\ AfterGetScripts
    /\ ~out.workspaces
    /\ out.cached
    /\ out.files = <<join(DirW, PACKAGE_JSON)>>
    /\ disk[DirW].pkg.content = PkgChanged
    /\ Len(out.result) = 2
    /\ out.result[1].name = <<"b">>
    /\ out.result[1].command = <<"y">>

\* C4 as stated: every call in single-project mode returns the N declared
\* scripts of the resolved manifest with the commands the file holds at the
\* time of the call.
Cex_C4_SingleTasksAreTheFile ==
    [][(/\ IsGetScriptsStep
        /\ ~out'.workspaces
        /\ findPackageJson(disk, out'.cwd).found
        /\ DeclaredScripts(disk, findPackageJson(disk, out'.cwd).path.dir) # <<>>)
       => TasksAreDeclared(out'.result,
              DeclaredScripts(disk, findPackageJson(disk, out'.cwd).path.dir))]_vars

\* The nearest directory with a package.json among dir and all its
\* ancestors, the filesystem root included.
NearestManifest(tree, dir) ==
    LET path == PathToRoot(dir)
        holders == {i \in 1..Len(path) : HasManifest(tree, path[i])}
    IN  IF holders = {} THEN NotFound
        ELSE Found(join(path[CHOOSE i \in holders : \A j \in holders : i <= j],
                        PACKAGE_JSON))

\* C5 as stated: in single-project mode discovery uses the package.json of
\* the nearest directory among the current directory and all its ancestors up
\* to the filesystem root, and reports that there is no manifest only when
\* none of those directories holds one.
Cex_C5_NearestManifestUpToRoot ==
    (AfterGetScripts /\ ~out.workspaces) =>
        IF NearestManifest(disk, out.cwd).found
        THEN /\ out.files = <<NearestManifest(disk, out.cwd).path>>
             /\ out.log = <<>>
        ELSE out.result = <<>>

\* a is before b, or equal to it, character by character in code units.
LexLeq(a, b) == compareKeys(codeUnitKey(a), codeUnitKey(b)) <= 0

\* (label, name) of task x is not after that of task y.
LabelNameLeq(x, y) ==
    \/ x.packageName.str # y.packageName.str
         /\ LexLeq(x.packageName.str, y.packageName.str)
    \/ x.packageName.str = y.packageName.str /\ LexLeq(x.name, y.name)

\* The number of times task t occurs in the list.
Occurrences(tasks, t) == Cardinality({i \in 1..Len(tasks) : tasks[i] = t})

\* The two lists hold the same tasks the same number of times.
SameTasks(xs, ys) ==
    \A t \in Range(xs) \cup Range(ys) : Occurrences(xs, t) = Occurrences(ys, t)

\* C6 as stated: a call in workspace mode that resolves a root and reads the
\* manifests returns the tasks of every manifest of the tree walk, none
\* dropped and none added, in non-decreasing order of (packageLabel, name)
\* under lexicographic comparison, the tasks labelled "(root)" before those
\* of every member package.
Cex_C6_UnionSortedRootFirst ==
    (AfterGetScripts /\ out.workspaces /\ out.root.found /\ ~out.cached) =>
        /\ SameTasks(out.result,
                     parseAll(disk, findAllPackageJsons(disk, out.root.path),
                              out.root.path))
        /\ \A i \in 1..Len(out.result) : \A j \in 1..Len(out.result) :
              i < j => LabelNameLeq(out.result[i], out.result[j])
        /\ \A i \in 1..Len(out.result) : \A j \in 1..Len(out.result) :
              (/\ out.result[i].packageName = Str(ROOT_LABEL)
               /\ out.result[j].packageName # Str(ROOT_LABEL)) => i < j

\* The directory of the manifest a returned task comes from: the task's
\* packagePath, and the one manifest read when the tasks carry none.
ManifestDirOf(task) ==
    IF task.packagePath \in {Undefined, Absent} THEN out.files[1].dir
    ELSE task.packagePath.str

\* A directory named node_modules, .git, .github, dist, build, .next or
\* coverage is on the path of dir, after its first `from` names.
HasSkippedNameAfter(dir, from) ==
    \E k \in (from + 1)..Len(dir) : dir[k] \in SkippedDirNames

\* C7 (amended): no task returned by a call in workspace mode that resolves
\* a workspace root comes from a manifest file with a directory named
\* node_modules, .git, .github, dist, build, .next or coverage on its path
\* below that root.
Thm_C7_NoTaskFromSkippedDirBelowRoot ==
    (AfterGetScripts /\ out.workspaces /\ out.root.found) =>
        \A i \in 1..Len(out.result) :
            /\ out.result[i].packagePath \notin {Undefined, Absent}
            /\ ~HasSkippedNameAfter(ManifestDirOf(out.result[i]), Len(out.root.path))

\* Reached: a call in workspace mode from /w has returned the tasks of /w,
\* /w/a and /w/!x and none of /w/node_modules, which holds a package.json.
Wit_C7_NodeModulesLeftOut ==
    /\ AfterGetScripts
    /\ out.workspaces
    /\ out.root = Found(DirW)
    /\ disk[DirN].pkg.exists
    /\ {ManifestDirOf(out.result[i]) : i \in 1..Len(out.result)} = {DirW, DirA, DirX}

\* C7 as stated: for every tree and every current directory, no task
\* returned by a call in workspace mode comes from a manifest file with a
\* directory of one of those names anywhere on its path.
Cex_C7_NoTaskFromSkippedDirAnywhere ==
    (AfterGetScripts /\ out.workspaces) =>
        \A i \in 1..Len(out.result) :
            ~HasSkippedNameAfter(ManifestDirOf(out.result[i]), 0)

\* dir is a workspace root: its package.json declares workspaces, or it
\* holds a pnpm-workspace.yaml.
IsWorkspaceRoot(tree, dir) ==
    \/ /\ tree[dir].pkg.exists
       /\ tree[dir].pkg.content.json = "object"
       /\ tree[dir].pkg.content.workspaces
    \/ tree[dir].pnpm

\* The first workspace root from dir (inclusive) upward to "/".
FirstWorkspaceRoot(tree, dir) ==
    LET path == PathToRoot(dir)
        roots == {i \in 1..Len(path) : IsWorkspaceRoot(tree, path[i])}
    IN  IF roots = {} THEN NotFound
        ELSE Found(path[CHOOSE i \in roots : \A j \in roots : i <= j])

\* C8: when no directory from the current directory up to "/" is a workspace
\* root, a call with workspaces: true returns the list a call with
\* workspaces: false returns from the same directory, files, cache and time,
\* and no task of it has a packageName or a packagePath.
Thm_C8_FallbackEqualsSingleMode ==
    [][(/\ IsGetScriptsStep
        /\ out'.workspaces
        /\ ~FirstWorkspaceRoot(disk, out'.cwd).found)
       => /\ out'.result = getScripts(disk, cacheFile, clock, out'.cwd, FALSE).result
          /\ \A i \in 1..Len(out'.result) :
                /\ out'.result[i].packageName \in {Undefined, Absent}
                /\ out'.result[i].packagePath \in {Undefined, Absent}]_vars

\* Reached: a call with workspaces: true from /w, where no directory up to
\* "/" is a workspace root, has returned the two scripts of /w/package.json
\* alone although /w/a and /w/!x hold manifests.
Wit_C8_FallbackIgnoresSubdirectories ==
    /\ AfterGetScripts
    /\ out.workspaces
    /\ out.cwd = DirW
    /\ ~FirstWorkspaceRoot(disk, DirW).found
    /\ disk[DirA].pkg.exists
    /\ disk[DirX].pkg.exists
    /\ out.files = <<join(DirW, PACKAGE_JSON)>>
    /\ Len(out.result) = 2
    /\ out.log # <<>>

\* C9 as stated: findMonorepoRoot returns the first directory, from the
\* start directory (inclusive) upward to the filesystem root, whose
\* package.json declares workspaces or which holds a pnpm-workspace.yaml, and
\* not-found only when there is no such directory.
Cex_C9_FirstWorkspaceRootUpToRoot ==
    (AfterGetScripts /\ out.workspaces) =>
        out.root = FirstWorkspaceRoot(disk, out.cwd)

\* The cache key of a call: the workspace root it resolved, or else the one
\* manifest it resolved.
CallKey(call) ==
    IF call.root.found THEN cacheKey("workspaces", join(call.root.path, <<>>))
    ELSE cacheKey("single", call.files[1])

\* The call missed the cache and resolved a definition file, and in
\* workspace mode found at least one task.
MissedAndStores(call) ==
    /\ ~call.cached
    /\ ~call.rejected
    /\ call.files # <<>>
    /\ call.root.found => call.result # <<>>

\* The cache file holds the list of the call under the call's key, written
\* at the time given.
HoldsRecordOf(cache, call, time) ==
    /\ cache.kind = "data"
    /\ CallKey(call) \in DOMAIN cache.entries
    /\ cache.entries[CallKey(call)].scripts = jsonRoundTrip(call.result)
    /\ cache.entries[CallKey(call)].timestamp = time

\* The step is a call that follows a call from the same directory in the
\* same mode, with no change to a file in between and at most 24 hours later.
IsRepeatedCallStep ==
    /\ IsGetScriptsStep
    /\ out.op = "getScripts"
    /\ out'.cwd = out.cwd
    /\ out'.workspaces = out.workspaces
    /\ out.edits = writes
    /\ clock - out.time <= CACHE_TTL_MS

\* The package.json files on the way from dir up to "/".
ManifestsUpFrom(dir) == {join(PathToRoot(dir)[i], PACKAGE_JSON) : i \in 1..Len(PathToRoot(dir))}

ReadablePart(tree) == [d \in Dirs |-> IF tree[d].unreadable THEN NoDir ELSE tree[d]]

\* C20: a call in workspace mode that resolves a root it can read does not
\* fail when a subdirectory cannot be read: it returns the tasks of the
\* definition files of the rest of the tree.
Cex_C20_UnreadableSubtreeIsSkipped ==
    (AfterGetScripts /\ out.workspaces /\ out.root.found
        /\ ~disk[out.root.path].unreadable) =>
        /\ ~out.rejected
        /\ jsonRoundTrip(out.result)
             = jsonRoundTrip(getScripts(ReadablePart(disk), StoreAbsent, clock,
                                        out.cwd, TRUE).result)

(***************************************************************************)
(* Properties of the interactive runner                                    *)
(***************************************************************************)

\* The children that may be running: spawned, and neither closed nor failed.
RunningChildren == {k \in 1..Len(ui.children) : ui.children[k].state = "spawned"}

\* The runner is in or past its loop over the selected keys.
InRunLoop == ui.pc = "await" \/ (ui.pc = "returned" /\ ui.ended = "ran")

\* C13: the runner launches the selected tasks one at a time, in the order
\* in which they were selected: at no time are two child processes running,
\* a child is spawned only when every child before it has closed or failed
\* to spawn, and the keys launched so far are, in order, the first keys of
\* the selection (the selection order when the user toggled, else the
\* focused choice).
Thm_C13_OneChildAtATimeInSelectionOrder ==
    /\ Cardinality(RunningChildren) <= 1
    /\ \A k \in 1..(Len(ui.children) - 1) : ui.children[k].state \in {"closed", "failed"}
    /\ Len(ui.launched) = Len(ui.children)
    /\ InRunLoop =>
          /\ ui.launched = SubSeq(ui.selected, 1, Len(ui.launched))
          /\ ui.selected = IF Len(ui.selectionOrder) > 0 THEN ui.selectionOrder
                           ELSE <<choicesOf(ui.scripts)[ui.index].name>>
          /\ ui.pc = "returned" => Len(ui.launched) = Len(ui.selected)

\* Three tasks were selected; the first has closed, the second failed to
\* spawn and the third is running.
Wit_C13_ThirdChildAfterTwoEnded ==
    /\ Len(ui.children) = 3
    /\ ui.children[1].state = "closed"
    /\ ui.children[2].state = "failed"
    /\ ui.children[3].state = "spawned"
    /\ Cardinality({ui.selected[k] : k \in 1..3}) = 3

\* C14: when the user aborts the selection prompt, or declines (or aborts)
\* the confirmation shown for more than one task, the runner returns and
\* no child process is ever launched.
Thm_C14_AbortOrDeclineLaunchesNothing ==
    (ui.ended = "aborted" \/ ui.answer \in {"no", "abort"}) =>
        /\ ui.pc = "returned"
        /\ ui.children = <<>>

\* The user selected two tasks and declined the confirmation.
Wit_C14_ConfirmationDeclined ==
    /\ ui.answer = "no"
    /\ Len(ui.selected) = 2
    /\ ui.pc = "returned"

\* The choices the user selected: the enabled ones, or the focused one when
\* none is enabled.
ChosenChoices == IF ui.enabled # {} THEN ui.enabled ELSE {ui.index} \ {0}

\* The child is the process of the task: <package manager> run <name>, in
\* the task's package directory, or in process.cwd() when it has none.
IsProcessOf(child, task) ==
    /\ child.args = <<"run", task.name>>
    /\ child.cwd = IF task.packagePath \in {Undefined, Absent} THEN ui.cwd
                   ELSE task.packagePath.str

\* C15: in workspace mode every process launched is the process of a task
\* the user selected, with that task's own name and package directory.
Cex_C15_EveryLaunchIsOfASelectedTask ==
    (InRunLoop /\ isMonorepo(ui.scripts)) =>
        \A k \in 1..Len(ui.children) :
            \E i \in ChosenChoices : IsProcessOf(ui.children[k], ui.scripts[i])

(***************************************************************************)
(* Properties of runScript                                                 *)
(***************************************************************************)

\* The child of the last call of runScript.
LastChild == ui.children[Len(ui.children)]

AfterGetCachedScripts == last = "call" /\ out.op = "getCachedScripts"

\* The record under key is there, is at most 24 hours old, records exactly
\* the paths of the list, and every path of the list is a file whose
\* modification time is the recorded one.
RecordIsValid(cache, tree, time, key, paths) ==
    /\ cache.kind = "data"
    /\ key \in DOMAIN cache.entries
    /\ time - cache.entries[key].timestamp <= CACHE_TTL_MS
    /\ DOMAIN cache.entries[key].mtimes = Range(paths)
    /\ \A path \in Range(paths) :
          /\ tree[path.dir].pkg.exists
          /\ cache.entries[key].mtimes[path] = tree[path.dir].pkg.mtime

\* C10 as stated: getCachedScripts(key, files) returns the stored list if
\* and only if a record exists under key, is at most 24 hours old, records
\* exactly the paths of files, and every recorded time is that file's current
\* modification time; in every other case, a file that has vanished
\* included, it returns a miss.
Cex_C10_HitIffRecordValid ==
    AfterGetCachedScripts =>
        IF RecordIsValid(cacheFile, disk, clock, out.key, out.files)
        THEN out.answer = Hit(cacheFile.entries[out.key].scripts)
        ELSE out.answer = Miss

(***************************************************************************)
(* Properties of the full cache                                            *)
(***************************************************************************)

IsSetCachedScriptsStep == calls' = calls + 1 /\ out'.op = "setCachedScripts"

\* The records of the cache file.
Records(store) == IF store.kind = "data" THEN store.entries ELSE EmptyMap

\* The timestamps of the records there would be with nothing removed: those
\* of before, and the time of the call for the record under its key.
TimestampsWith(store, key, now) ==
    [k \in DOMAIN Records(store) \cup {key} |->
        IF k = key THEN now ELSE Records(store)[k].timestamp]

\* C18: after every call of setCachedScripts the store holds at most 50
\* records; when the record written makes more than 50, the records removed
\* are the oldest by timestamp and exactly 50 remain, and when it makes 50
\* or fewer no record is removed; a record that stays is left as it was.
Thm_C18_AtMostFiftyOldestRemoved ==
    [][IsSetCachedScriptsStep =>
        LET key == out'.key
            after == Records(cacheFile')
            all == TimestampsWith(cacheFile, key, clock)
        IN  /\ Cardinality(DOMAIN after) <= MAX_CACHE_ENTRIES
            /\ DOMAIN after \subseteq DOMAIN all
            /\ \A k \in DOMAIN after \ {key} : after[k] = Records(cacheFile)[k]
            /\ key \in DOMAIN after =>
                  /\ after[key].timestamp = clock
                  /\ after[key].scripts = jsonRoundTrip(out'.scripts)
            /\ Cardinality(DOMAIN all) <= MAX_CACHE_ENTRIES => DOMAIN after = DOMAIN all
            /\ Cardinality(DOMAIN all) > MAX_CACHE_ENTRIES =>
                  /\ Cardinality(DOMAIN after) = MAX_CACHE_ENTRIES
                  /\ \A gone \in DOMAIN all \ DOMAIN after : \A kept \in DOMAIN after :
                        all[gone] <= all[kept]]_vars

\* A call stored a new record in a cache of 50 records: the oldest record
\* is gone, and the new one is among the 50 kept.
Wit_C18_OldestRecordEvicted ==
    /\ out.op = "setCachedScripts"
    /\ out.key \in CacheKeys
    /\ Cardinality(DOMAIN Records(cacheFile)) = MAX_CACHE_ENTRIES
    /\ out.key \in DOMAIN Records(cacheFile)
    /\ FillerKey(1) \notin DOMAIN Records(cacheFile)
    /\ FillerKey(2) \in DOMAIN Records(cacheFile)

(***************************************************************************)
(* Properties of invocations that run at the same time                     *)
(***************************************************************************)

\* What a discovery with no cache returns for the files as they are.
FullParse(cwd, workspaces) == getScripts(disk, StoreAbsent, clock, cwd, workspaces).result

\* C17: a discovery call that began after the last modification of the
\* definition files (every modification changing the file's modification
\* time) returns what a full parse of the current files yields, whatever
\* calls and modifications ran before it and however they interleaved.
Cex_C17_CallAfterModificationReturnsCurrent ==
    \A j \in 1..Len(jobs) :
        (jobs[j].op = "getScripts" /\ jobs[j].pc = "done" /\ jobs[j].began = writes) =>
            jsonRoundTrip(jobs[j].result)
                = jsonRoundTrip(FullParse(jobs[j].cwd, jobs[j].workspaces))

\* The j-th invocation has written the record that is in the store under
\* the key.
WroteRecord(j, key) ==
    /\ jobs[j].op = "setCachedScripts"
    /\ jobs[j].pc = "done"
    /\ jobs[j].key = key
    /\ Records(cacheFile)[key].scripts = jsonRoundTrip(jobs[j].scripts)
    /\ Records(cacheFile)[key].mtimes = jobs[j].mtimes
    /\ DOMAIN jobs[j].mtimes = Range(jobs[j].paths)

\* C19: however invocations of setCachedScripts interleave, every record in
\* the store holds exactly the task list and the mtimes that one completed
\* invocation wrote for its key (the interleaving that loses one of two new
\* records is the witness).
Thm_C19_EveryRecordIsOneInvocationsWrite ==
    \A key \in DOMAIN Records(cacheFile) : \E j \in 1..Len(jobs) : WroteRecord(j, key)

\* Two invocations for different keys have both completed, and the store
\* holds the record of the second only.
Wit_C19_OneOfTwoRecordsLost ==
    /\ Len(jobs) = 2
    /\ jobs[1].pc = "done" /\ jobs[2].pc = "done"
    /\ jobs[1].key # jobs[2].key
    /\ DOMAIN Records(cacheFile) = {jobs[2].key}
    /\ WroteRecord(2, jobs[2].key)

(***************************************************************************)
(* Properties of discovery with a faulty cache file                        *)
(***************************************************************************)

\* C12 as stated: when the cache file is unreadable, is not valid JSON, or
\* is JSON without an entries mapping, a call of getScripts in either mode
\* does not fail and returns the tasks that full discovery gives.
Cex_C12_FaultyStoreNeverReachesCaller ==
    [][(IsGetScriptsStep /\ cacheFile \in FaultyStores)
        => /\ ~out'.rejected
           /\ out'.result = getScripts(disk, StoreAbsent, clock, out'.cwd,
                                       out'.workspaces).result]_vars

(***************************************************************************)
(* parseMakefile applied to bounded files                                  *)
(***************************************************************************)

MaxLines == 4

\* The lines the files of the model are made of: headers with and without
\* prerequisites, with white space before the colon, with a name that begins
\* with a dot or a digit; recipe lines; a blank line, a comment, a
\* variable assignment, and a line that begins with a colon.
LinePool ==
    { <<"a", ":">>,
      <<"a", ":", " ", "b">>,
      <<"b", " ", ":">>,
      <<"B", "_", "2", "-", ":">>,
      <<".", "p", ":">>,
      <<"1", "a", ":">>,
      <<"\t", "x">>,
      <<"\t", " ", "y", " ">>,
      <<>>,
      <<"#", "c">>,
      <<"v", "=", "1">>,
      <<"v">>,
      <<":", "w">> }

\* The text of a file: its lines, each but the last followed by a newline.
RECURSIVE joinLines(_)
joinLines(lines) ==
    IF lines = <<>> THEN <<>>
    ELSE IF Len(lines) = 1 THEN Head(lines)
    ELSE Head(lines) \o <<"\n">> \o joinLines(Tail(lines))

MakeFiles == UNION {[1..k -> LinePool] : k \in 1..MaxLines}

MakeInit ==
    /\ SgQuiet
    /\ disk = [d \in Dirs |-> NoDir]
    /\ cacheFile = StoreAbsent
    /\ clock = StartTime
    /\ out = Idle
    /\ last = "init"
    /\ calls = 0
    /\ writes = 0
    /\ ticks = 0
    /\ ui = UiIdle
    /\ pmMemo = MemoEmpty
    /\ jobs = NoJobs
    /\ \E lines \in MakeFiles :
           mk = [pc |-> "idle", lines |-> lines, content |-> joinLines(lines),
                 targets |-> <<>>]

\* parseMakefile(makefilePath) in single mode, the file holding mk.content.
ParseMakefile ==
    /\ mk.pc = "idle"
    /\ mk' = [mk EXCEPT !.pc = "done",
                        !.targets = parseMakefileContent(mk.content, Undefined, Undefined)]
    /\ UNCHANGED <<ui, pmMemo, jobs>>
    /\ UNCHANGED envVars
    /\ UNCHANGED sgVars

MakeNext == ParseMakefile

SpecMake == MakeInit /\ [][MakeNext]_vars

(***************************************************************************)
(* Properties of parseMakefile                                             *)
(***************************************************************************)

\* The name of the header a line is: the run of letters, digits, underscores
\* and hyphens it starts with, when optional white space and a colon follow.
HeaderNameEnd(line) == runEnd(line, 0, LetterChars \cup DigitChars \cup {"_", "-"})

IsHeader(line) ==
    /\ HeaderNameEnd(line) > 0
    /\ LET colon == runEnd(line, HeaderNameEnd(line), {" ", "\t"})
       IN  colon < Len(line) /\ line[colon + 1] = ":"

HeaderName(line) == SubSeq(line, 1, HeaderNameEnd(line))

\* The first header of a name.
FirstHeader(lines, name) ==
    CHOOSE h \in 1..Len(lines) :
        /\ IsHeader(lines[h]) /\ HeaderName(lines[h]) = name
        /\ \A g \in 1..(h - 1) : ~(IsHeader(lines[g]) /\ HeaderName(lines[g]) = name)

HasHeader(lines, name) ==
    \E h \in 1..Len(lines) : IsHeader(lines[h]) /\ HeaderName(lines[h]) = name

\* A line that ends a recipe: not empty, not a comment, not begun by a tab.
EndsRecipe(line) == trim(line) # <<>> /\ line[1] # "#" /\ line[1] # "\t"

\* The recipe lines of the header at line h: the lines begun by a tab that
\* follow it, up to the first line that ends the recipe.
RecipeLines(lines, h) ==
    { k \in (h + 1)..Len(lines) :
        /\ lines[k] # <<>> /\ lines[k][1] = "\t"
        /\ \A g \in (h + 1)..(k - 1) : ~EndsRecipe(lines[g]) }

RECURSIVE JoinedFrom(_, _, _)
JoinedFrom(lines, ks, k) ==
    IF k > Len(lines) THEN <<>>
    ELSE IF k \in ks
    THEN (IF \E g \in ks : g < k THEN AND_SEPARATOR ELSE <<>>)
            \o trim(lines[k]) \o JoinedFrom(lines, ks, k + 1)
    ELSE JoinedFrom(lines, ks, k + 1)

ExpectedCommand(lines, h) ==
    IF RecipeLines(lines, h) = {} THEN MAKE_PREFIX \o HeaderName(lines[h])
    ELSE JoinedFrom(lines, RecipeLines(lines, h), 1)

\* C21: the command of every target is its recipe lines (the lines begun by
\* a tab that follow the target's header, up to the first non-empty,
\* non-comment line not begun by a tab), each trimmed, joined with ' && ',
\* whether or not the header lists prerequisites; it is 'make <target>'
\* exactly when the target has no recipe line.
Cex_C21_CommandIsRecipeOrFallback ==
    mk.pc = "done" =>
        \A i \in 1..Len(mk.targets) :
            HasHeader(mk.lines, mk.targets[i].name) =>
                mk.targets[i].command
                    = ExpectedCommand(mk.lines, FirstHeader(mk.lines, mk.targets[i].name))

\* The names of the headers of a file, each once, in the order of their
\* first headers.
RECURSIVE DistinctHeaderNames(_, _)
DistinctHeaderNames(lines, seen) ==
    IF lines = <<>> THEN <<>>
    ELSE IF IsHeader(Head(lines)) /\ HeaderName(Head(lines)) \notin seen
    THEN <<HeaderName(Head(lines))>>
            \o DistinctHeaderNames(Tail(lines), seen \cup {HeaderName(Head(lines))})
    ELSE DistinctHeaderNames(Tail(lines), seen)

\* C22: the parser yields one task for each distinct name of a header line
\* (a line that starts with a run of letters, digits, underscores and hyphens
\* followed by optional white space and a colon), a name that heads several
\* lines yielding the one task of its first header; a name that begins with
\* a dot yields no task.
Cex_C22_OneTaskPerHeaderName ==
    mk.pc = "done" =>
        /\ [i \in 1..Len(mk.targets) |-> mk.targets[i].name]
               = DistinctHeaderNames(mk.lines, {})
        /\ \A i \in 1..Len(mk.targets) : mk.targets[i].name[1] # "."

(***************************************************************************)
(* Workspace discovery of manifests and makefiles                          *)
(***************************************************************************)

\* The makefiles of the model: "a:\n\tx" and "a:\n\ty\nb:".
MakefileX == <<"a", ":", "\n", "\t", "x">>
MakefileY == <<"a", ":", "\n", "\t", "y", "\n", "b", ":">>

Mk(name, content) == [name |-> name, file |-> File(content, StartTime)]

WithMakefiles(dir, makefiles) == [dir EXCEPT !.makefiles = makefiles]

\* The makefiles a directory may hold: none, one, or two of different names.
MakefileSets ==
    { <<>>,
      <<Mk(MAKEFILE_NAMES[1], MakefileX)>>,
      <<Mk(MAKEFILE_NAMES[1], MakefileX), Mk(MAKEFILE_NAMES[2], MakefileY)>>,
      <<Mk(MAKEFILE_NAMES[3], MakefileY), Mk(MAKEFILE_NAMES[1], MakefileX)>> }

\* /w declares workspaces; /w, /w/a and /w/(root) hold manifests and
\* makefiles or not.
LabelTrees ==
    { [d \in Dirs |->
          IF d = DirW
          THEN WithMakefiles(Dir(File(PkgWorkspaces, StartTime), FALSE), wm)
          ELSE IF d = DirA THEN WithMakefiles(Dir(a, FALSE), am)
          ELSE IF d = DirR THEN WithMakefiles(Dir(r, FALSE), rm)
          ELSE NoDir] :
        wm \in {<<>>, <<Mk(MAKEFILE_NAMES[1], MakefileX)>>},
        a \in {NoFile, File(PkgMember, StartTime)},
        am \in MakefileSets,
        r \in {NoFile, File(PkgSingle, StartTime)},
        rm \in {<<>>, <<Mk(MAKEFILE_NAMES[2], MakefileY)>>} }

LabelCallDirs == {DirW, DirA, DirR}

LabelInit ==
    /\ SgQuiet
    /\ disk \in LabelTrees
    /\ cacheFile = StoreAbsent
    /\ clock = StartTime
    /\ out = Idle
    /\ last = "init"
    /\ calls = 0
    /\ writes = 0
    /\ ticks = 0
    /\ AuxQuiet

\* One call of getMakefileTargets({ workspaces }) with process.cwd() = cwd.
GetMakefileTargets(cwd, workspaces) ==
    /\ calls < MaxCalls
    /\ LET outcome == getMakefileTargets(disk, cacheFile, clock, cwd, workspaces)
       IN  /\ out' = [op |-> "getMakefileTargets", cwd |-> cwd,
                      workspaces |-> workspaces,
                      result |-> outcome.result, log |-> outcome.log,
                      rejected |-> outcome.rejected,
                      root |-> outcome.root, files |-> outcome.files,
                      cached |-> outcome.cached, reads |-> outcome.reads,
                      time |-> clock, edits |-> writes]
           /\ cacheFile' = outcome.store
    /\ calls' = calls + 1
    /\ last' = "call"
    /\ UNCHANGED <<disk, clock, writes, ticks>>
    /\ UNCHANGED sgVars
    /\ UNCHANGED auxVars

LabelNext ==
    \/ \E cwd \in LabelCallDirs, workspaces \in BOOLEAN : GetScripts(cwd, workspaces)
    \/ \E cwd \in LabelCallDirs, workspaces \in BOOLEAN : GetMakefileTargets(cwd, workspaces)

SpecLabels == LabelInit /\ [][LabelNext]_vars

(***************************************************************************)
(* Properties of workspace discovery of manifests and makefiles            *)
(***************************************************************************)

HasLabel(task) == task.packageName # Undefined /\ task.packageName # Absent

\* C23: in every task list that workspace-mode discovery returns, of
\* manifests or of makefiles, no two tasks have the same package label and
\* the same name, whatever the directories hold: several definition files in
\* one directory, or a directory whose path below the root is the label of
\* the root.
Cex_C23_LabelAndNameAreUnique ==
    (out.op \in {"getScripts", "getMakefileTargets"} /\ out.workspaces) =>
        \A i, j \in 1..Len(out.result) :
            (/\ i # j
             /\ HasLabel(out.result[i]) /\ HasLabel(out.result[j])
             /\ out.result[i].packageName = out.result[j].packageName)
                => out.result[i].name # out.result[j].name

(***************************************************************************)
(* Properties of the matcher's terms                                       *)
(***************************************************************************)

\* The maximal runs of characters of an input that are not white space.
WhiteSpaceTerms(in) ==
    { SubSeq(in, i, j) : <<i, j>> \in
        { p \in (1..Len(in)) \X (1..Len(in)) :
            /\ p[1] <= p[2]
            /\ \A k \in p[1]..p[2] : in[k] \notin WhiteSpace
            /\ p[1] = 1 \/ in[p[1] - 1] \in WhiteSpace
            /\ p[2] = Len(in) \/ in[p[2] + 1] \in WhiteSpace } }

\* C24 as stated: the terms are the pieces of the lowercased input between
\* runs of white space (spaces, tabs, newlines), so that two words separated
\* by any white space are matched as two terms that must both be found.
Cex_C24_TermsAreSplitAtWhiteSpace ==
    (sgPc = "done" /\ SgInputLower # <<>>) =>
        sgResult = SelectSeq(sgChoices,
                       LAMBDA c : \/ toLowerCase(c.name) = SgInputLower
                                  \/ \A t \in WhiteSpaceTerms(SgInputLower) :
                                        \/ includes(toLowerCase(c.name), t)
                                        \/ includes(toLowerCase(c.command), t))

\* C24, amended: the terms are the pieces of the lowercased input between
\* runs of spaces, without the pieces that are empty or white space only; a
\* tab or a newline does not separate terms.  'test   watch' is matched as
\* the two terms test and watch.
Thm_C24_TermsAreSplitAtSpaces ==
    (sgPc = "done" /\ sgInput # Undefined) =>
        /\ Range(inputTermsOf(normalizedInput(sgInput))) = TermsOfInput(SgInputLower)
        /\ (sgChoices = SampleChoices
               /\ sgInput = Str(<<"t","e","s","t"," "," "," ","w","a","t","c","h">>))
              => sgResult = <<TestWatchChoice>>

\* Reached: 'test   watch' over the test candidates has returned test:watch.
Wit_C24_ThreeSpacesTwoTerms ==
    /\ sgPc = "done"
    /\ sgChoices = SampleChoices
    /\ sgInput = Str(<<"t","e","s","t"," "," "," ","w","a","t","c","h">>)
    /\ Range(inputTermsOf(normalizedInput(sgInput)))
           = {<<"t","e","s","t">>, <<"w","a","t","c","h">>}
    /\ sgResult = <<TestWatchChoice>>

(***************************************************************************)
(* Discovery over manifests of every shape                                 *)
(***************************************************************************)

\* What a package.json may hold: text that is not JSON, null, an object
\* without scripts, and objects whose scripts is a string, a number, null,
\* an empty array, an array of two commands, an empty object, or a mapping.
ManifestShapes ==
    { InvalidJson, JsonNull,
      Manifest(FALSE, ScriptsAbsent),
      Manifest(FALSE, ScriptsString),
      Manifest(FALSE, ScriptsNumber),
      Manifest(FALSE, ScriptsNull),
      Manifest(FALSE, ScriptsArray(<<>>)),
      Manifest(FALSE, ScriptsArray(<< <<"x">>, <<"y">> >>)),
      Manifest(FALSE, ScriptsObject(<<>>)),
      PkgMember }

\* /w declares workspaces; /w/a and /w/!x hold manifests of every shape.
ManifestTrees ==
    { [d \in Dirs |->
          IF d = DirW THEN Dir(File(PkgWorkspaces, StartTime), FALSE)
          ELSE IF d = DirA THEN Dir(File(a, StartTime), FALSE)
          ELSE IF d = DirX THEN Dir(x, FALSE)
          ELSE NoDir] :
        a \in ManifestShapes,
        x \in {NoFile} \cup {File(c, StartTime) : c \in ManifestShapes} }

ManifestInit ==
    /\ SgQuiet
    /\ disk \in ManifestTrees
    /\ cacheFile = StoreAbsent
    /\ clock = StartTime
    /\ out = Idle
    /\ last = "init"
    /\ calls = 0
    /\ writes = 0
    /\ ticks = 0
    /\ AuxQuiet

ManifestNext ==
    \E cwd \in {DirW, DirA}, workspaces \in BOOLEAN : GetScripts(cwd, workspaces)

SpecManifests == ManifestInit /\ [][ManifestNext]_vars

\* The scripts section of a file is a mapping of names to commands.
IsMapping(file) ==
    /\ file.exists
    /\ file.content.json = "object"
    /\ file.content.scripts.kind = "object"

\* The tasks of a result that come from the manifest at a path: in workspace
\* mode those of the path's directory, in single mode all of them.
TasksFrom(result, path) ==
    SelectSeq(result, LAMBDA t : HasLabel(t) => t.packagePath = Str(path.dir))

\* C25: the parser never throws; a file that is not valid JSON, has no
\* scripts section, or has one that is a string, a number, null or an array,
\* contributes no task, and discovery goes on with the other files, whose
\* scripts are all returned.
Cex_C25_OnlyMappingsYieldTasks ==
    out.op = "getScripts" =>
        /\ ~out.rejected
        /\ \A i \in 1..Len(out.files) :
              LET file == disk[out.files[i].dir].pkg
                  tasks == TasksFrom(out.result, out.files[i])
              IN  IF IsMapping(file)
                  THEN {tasks[k].name : k \in 1..Len(tasks)}
                          = {file.content.scripts.entries[k].name :
                                k \in 1..Len(file.content.scripts.entries)}
                  ELSE tasks = <<>>

(***************************************************************************)
(* Properties of the matcher's exact-name check                            *)
(***************************************************************************)

\* The callback of choices.filter without `if (nameLower === input) return
\* true`.
choiceMatchesNoExact(choice, input, inputTerms) ==
    IF input = <<>> THEN TRUE ELSE allTermsMatch(choice, inputTerms)

\* C26: the exact-name check never changes the outcome: the result is that
\* of the filter without the check, so a candidate whose name is the input
\* never keeps out the other candidates that hold every term.
Thm_C26_ExactCheckChangesNothing ==
    sgPc = "done" =>
        sgResult = SelectSeq(sgChoices,
                       LAMBDA c : choiceMatchesNoExact(c, normalizedInput(sgInput),
                                      inputTermsOf(normalizedInput(sgInput))))

\* Reached: 'TEST' is the name of the candidate test, and the result holds
\* test:watch as well.
Wit_C26_ExactNameAndAnotherCandidate ==
    /\ sgPc = "done"
    /\ sgChoices = SampleChoices
    /\ sgInput = Str(<<"T","E","S","T">>)
    /\ nameLower(TestChoice) = normalizedInput(sgInput)
    /\ sgResult = <<TestChoice, TestWatchChoice>>

(***************************************************************************)
(* Properties of the selection prompt                                      *)
(***************************************************************************)

\* The key of the i-th choice of the prompt.
KeyOfChoice(i) == choicesOf(ui.scripts)[i].name

NoDuplicates(seq) == \A i, j \in 1..Len(seq) : i # j => seq[i] # seq[j]

\* The step is a toggle of a choice; the step is the user's enter.
IsToggleStep == ui.pc = "prompt" /\ ui'.pc = "prompt" /\ ui'.toggles = ui.toggles + 1
IsSubmitStep == ui.pc = "prompt" /\ ui'.pc # "prompt" /\ ui'.ended # "aborted"

\* C27: after every toggle selectionOrder holds no key twice and lists
\* exactly the enabled choices, one key for each, in the order in which each
\* was last enabled (a choice that is enabled goes to the end, one that is
\* disabled leaves, the others keep their places); when selectionOrder is
\* empty at the user's enter, exactly the focused choice is run.
Cex_C27_SelectionOrderListsEnabledChoices ==
    [][/\ IsToggleStep =>
             /\ NoDuplicates(ui'.selectionOrder)
             /\ Len(ui'.selectionOrder) = Cardinality(ui'.enabled)
             /\ Range(ui'.selectionOrder) = {KeyOfChoice(i) : i \in ui'.enabled}
             /\ \A i \in ui'.enabled \ ui.enabled :
                   ui'.selectionOrder = Append(ui.selectionOrder, KeyOfChoice(i))
             /\ \A i \in ui.enabled \ ui'.enabled :
                   ui'.selectionOrder
                       = SelectSeq(ui.selectionOrder, LAMBDA k : k # KeyOfChoice(i))
       /\ (IsSubmitStep /\ ui.selectionOrder = <<>> /\ ui'.index # 0) =>
             /\ Len(ui'.children) = 1
             /\ IsProcessOf(ui'.children[1], ui.scripts[ui'.index])]_vars

(***************************************************************************)
(* detectPackageManager called again and again                             *)
(***************************************************************************)

MaxDetects == 3

\* The lockfiles /, /w and /w/a may hold.
LockTrees ==
    { [d \in Dirs |->
          IF d = RootDir THEN Lock(NoDir, r)
          ELSE IF d = DirW THEN Lock(NoDir, w)
          ELSE IF d = DirA THEN Lock(NoDir, a)
          ELSE NoDir] :
        r \in {{}, {"yarn.lock"}},
        w \in {{}, {"pnpm-lock.yaml"}, {"package-lock.json", "bun.lock"}},
        a \in {{}, {"bun.lockb"}, {"yarn.lock", "pnpm-lock.yaml"}} }

DetectDirs == {RootDir, DirW, DirA, DirX}

DetectInit ==
    /\ SgQuiet
    /\ disk \in LockTrees
    /\ cacheFile = StoreAbsent
    /\ clock = StartTime
    /\ out = Idle
    /\ last = "init"
    /\ calls = 0
    /\ writes = 0
    /\ ticks = 0
    /\ AuxQuiet

\* One call of detectPackageManager(startDir).
DetectPackageManager(startDir) ==
    /\ calls < MaxDetects
    /\ LET detected == detectPackageManager(pmMemo, disk, startDir)
       IN  /\ out' = [op |-> "detectPackageManager", startDir |-> startDir,
                      pm |-> detected.pm, memo |-> pmMemo]
           /\ pmMemo' = detected.memo
    /\ calls' = calls + 1
    /\ last' = "call"
    /\ UNCHANGED <<disk, cacheFile, clock, writes, ticks, ui, jobs, mk>>
    /\ UNCHANGED sgVars

DetectNext == \E startDir \in DetectDirs : DetectPackageManager(startDir)

SpecDetect == DetectInit /\ [][DetectNext]_vars

\* The directories from a directory upward: the directory and its ancestors.
Upward(dir) == {SubSeq(dir, 1, k) : k \in 0..Len(dir)}

LockfileNames == {lockfiles[i].file : i \in 1..Len(lockfiles)}

\* The package manager of the first lockfile, in priority order, of the
\* nearest directory from the start upward that holds a lockfile; npm when
\* none does.
NearestLockfilePM(fs, startDir) ==
    LET holders == {d \in Upward(startDir) : fs[d].locks \cap LockfileNames # {}}
    IN  IF holders = {} THEN "npm"
        ELSE LET nearest == CHOOSE d \in holders : \A e \in holders : Len(e) <= Len(d)
                 first == CHOOSE i \in 1..Len(lockfiles) :
                              /\ lockfiles[i].file \in fs[nearest].locks
                              /\ \A k \in 1..(i - 1) :
                                    lockfiles[k].file \notin fs[nearest].locks
             IN  lockfiles[first].pm

\* C28: with the files unchanged, every call of detectPackageManager, after
\* any calls for any directories, returns what a call with the memo cleared
\* returns: the package manager of the first lockfile in priority order in
\* the nearest directory from the start upward that holds one, npm when none
\* does; the memo never answers for another directory.
Cex_C28_EveryCallReturnsNearestLockfile ==
    out.op = "detectPackageManager" =>
        /\ out.pm = detectPackageManager(MemoEmpty, disk, out.startDir).pm
        /\ out.pm = NearestLockfilePM(disk, out.startDir)

(***************************************************************************)
(* The loop over the selected keys in a confirmed run                      *)
(***************************************************************************)

\* The selected keys that scripts.find() resolves to a script, in order.
ResolvableKeys ==
    LET Resolves(key) == findScript(ui.scripts, key) # 0
    IN  SelectSeq(ui.selected, Resolves)

\* The k-th child has ended: its 'close' or its 'error' event was handled.
HasEnded(k) == ui.children[k].state \in {"closed", "failed"}

\* The run of more than one task that the user confirmed.
ConfirmedMultiRun == InRunLoop /\ Len(ui.selected) > 1 /\ ui.answer = "yes"

\* C29: in a confirmed run of more than one task, the keys launched so far
\* are the first resolvable selected keys, each launched once; a child that
\* exited with a non-zero code, was ended by a signal or failed to spawn is
\* followed by the launch of the next resolvable key; and the runner has
\* returned exactly when every resolvable key was launched and every child
\* launched has ended.
Thm_C29_EveryKeyLaunchedOnceFailuresDoNotStop ==
    ConfirmedMultiRun =>
        /\ NoDuplicates(ui.launched)
        /\ Len(ui.launched) = Len(ui.children)
        /\ ui.launched = SubSeq(ResolvableKeys, 1, Len(ui.launched))
        /\ \A k \in 1..Len(ui.children) :
              (HasEnded(k) /\ k < Len(ResolvableKeys)) => Len(ui.children) > k
        /\ ui.pc = "returned" <=>
              /\ Len(ui.launched) = Len(ResolvableKeys)
              /\ \A k \in 1..Len(ui.children) : HasEnded(k)

\* Three tasks were confirmed; the first exited with code 1, the second
\* failed to spawn, the third was still launched, and the runner returned
\* when it closed.
Wit_C29_ReturnedAfterFailedAndNonZero ==
    /\ ConfirmedMultiRun
    /\ ui.pc = "returned"
    /\ Len(ui.children) = 3
    /\ ui.children[1].status = Exited(1)
    /\ ui.children[2].state = "failed"
    /\ ui.children[3].state = "closed"

====
